---- MODULE Spec2Model ----
(***************************************************************************)
(* libuta: the Unified Trust Anchor API.  One caller-allocated context is  *)
(* shared by the caller threads; the library is built for exactly one of   *)
(* three backends (the software simulation uta_sim.c, the IBM-stack TPM    *)
(* backend in uta.c, the TCG-stack TPM backend tpm_tcg.c).  The TPM, its   *)
(* software stack, the pthread mutex and the HMAC primitive are the        *)
(* environment: every outcome they can produce is a nondeterministic       *)
(* choice.                                                                 *)
(***************************************************************************)
EXTENDS Integers, Sequences, FiniteSets, TLC

(* ------------------------------ bounds --------------------------------- *)
\* number of caller threads sharing the context
NThreads == 2
\* number of API calls made in one behaviour of the sequential workload
MaxCalls == 4
\* number of API calls made in one behaviour of the concurrent workload (all
\* threads together)
MaxConcurrentCalls == 3
\* largest len_random a caller asks for
MaxLenRandom == 2

(* ------------------------- program constants --------------------------- *)
UTA_SUCCESS == 0
UTA_INVALID_KEY_LENGTH == 1
UTA_INVALID_DV_LENGTH == 2
UTA_INVALID_KEY_SLOT == 3
UTA_TA_ERROR == 16
KEY_LEN == 32
DERIV_VAL_LEN == 8
DERIV_STR_LEN == 8
USED_KEY_SLOTS == 2
UUID_LEN == 16
TPM_KEY0_HANDLE == "0x81000000"
TPM_KEY1_HANDLE == "0x81000001"
TPM_SALT_HANDLE == "0x81000002"
KEY_SLOT_0 == << 128, 109, 66, 124, 253, 51, 127, 207, 163, 233, 241, 169, 249, 32, 39, 39,
                 145, 192, 3, 96, 51, 144, 221, 38, 237, 84, 108, 69, 20, 66, 73, 112 >>
KEY_SLOT_1 == << 148, 42, 37, 177, 45, 171, 203, 200, 5, 182, 72, 117, 91, 235, 4, 177,
                 160, 163, 105, 79, 142, 112, 25, 170, 92, 216, 58, 21, 251, 72, 8, 234 >>
KEY_SLOTS == << KEY_SLOT_0, KEY_SLOT_1 >>
\* "DEVICEID", the label get_device_uuid HMACs
DEVICEID == << 68, 69, 86, 73, 67, 69, 73, 68 >>

(* ----------------------------- input sets ------------------------------ *)
Threads == 1..NThreads
Backends == {"UTA_SIM", "TPM_IBM", "TPM_TCG"}
\* The callers' workloads.  "sequential": one thread calls, with arguments from the
\* whole range of each parameter.  "concurrent": every thread calls, with arguments
\* from the valid range and one invalid key slot, MaxConcurrentCalls calls in all.
Workloads == {"sequential", "concurrent"}
\* key_slot is a uint8_t
KeySlots(w) == IF w = "sequential" THEN {0, 1, 2, 255} ELSE {0, 1, 2}
LenDvs(w) == IF w = "sequential" THEN {7, 8, 9} ELSE {8}
LenKeys(w) == IF w = "sequential" THEN {0, 16, 32, 33} ELSE {16, 32}
\* the callers' derivation strings: "default!" and "*passwd*"
DerivStrings(w) ==
    IF w = "sequential"
    THEN { << 100, 101, 102, 97, 117, 108, 116, 33 >>, << 42, 112, 97, 115, 115, 119, 100, 42 >> }
    ELSE { << 100, 101, 102, 97, 117, 108, 116, 33 >> }
LenRandoms == 0..MaxLenRandom
\* positions srand(time) puts the simulation's generator at
Seeds == {0, 100}
\* values of an uninitialised stack byte
StackBytes == {0, 170}
\* sizes of the digest in the TPM's HMAC response (32 for SHA-256; a malformed
\* response is shorter: enough for a 16-byte result, or not even that)
DigestSizes == {8, 16, 32}

(* ------------------------------- bytes --------------------------------- *)
Min(a, b) == IF a < b THEN a ELSE b

Prefix(s, n) == SubSeq(s, 1, Min(n, Len(s)))

\* a byte of the caller's buffer that the call has not written
Untouched == 0 - 1

\* the caller's output buffer as handed to a call
FreshBuf == [i \in 1..KEY_LEN |-> Untouched]

\* memcpy(dst, src, n): bytes past the end of src are the stack bytes fill
memcpy(dst, src, n) == [i \in 1..Len(dst) |-> IF i <= n THEN src[i] ELSE dst[i]]

\* the caller's dv buffer of len_dv bytes: the derivation string cut, or padded
\* with '='
DvBuffer(s, n) == [i \in 1..n |-> IF i <= Len(s) THEN s[i] ELSE 61]

RECURSIVE Mix(_, _)
Mix(s, acc) == IF s = << >> THEN acc ELSE Mix(Tail(s), (acc * 31 + Head(s) + 1) % 32749)

\* The HMAC-SHA256 primitive (mbedtls_md_hmac, TPM2_HMAC): 32 bytes that depend on
\* the whole key and the whole message.  The primitive is not code of the library;
\* it is represented by a fixed mixing function.
HMAC_SHA256(key, msg) ==
    LET a == Mix(key, 7)
        b == Mix(msg, 11)
    IN [i \in 1..KEY_LEN |-> (((a + i) * (b + 2 * i + 1)) % 257) % 256]

\* RFC 4122 formatting of the 16 bytes (C arrays are 0-based: uuid[6] is the 7th)
FormatUuid(u) ==
    [i \in 1..Len(u) |->
        IF i = 7 THEN (u[i] % 16) + 64
        ELSE IF i = 9 THEN (u[i] % 64) + 128
        ELSE u[i]]

(* ------------------------------- state --------------------------------- *)
VARIABLES
    backend,   \* the backend the library was configured with (HARDWARE=...)
    workload,  \* what the callers do in this run
    life,      \* what the callers know of the context: "closed", "open", "closing"
    ctx,       \* the context struct: transport handle, session handle, session attributes
    mutex,     \* ctx.accesslock: its owner (0: none) and whether it is initialised
    wire,      \* the command the transport holds (the TSS context's command buffer)
    dev,       \* the trust anchor: random stream position, loaded objects, sessions
    pc,        \* where each thread is in its call
    call,      \* the function a thread called, with its arguments
    loc,       \* the locals of the running call
    out,       \* the caller's output buffer (key, random or uuid)
    rc,        \* the code the last call returned
    ncalls,    \* calls made so far
    caller,    \* the thread that made the latest call (0: none yet)
    got,       \* per call: the random bytes the device delivered to its exchanges
    answers,   \* per self_test or close call: what each of its exchanges read back, in
               \* order; per other call: what its latest exchange read back
    closes,    \* closes that returned UTA_SUCCESS so far
    other,     \* a second context of the process: "closed" or "open"
    prov,      \* a provisioning run: the script's position and variables, the TPM it works on
    tool,      \* a run of uta_get_passphrase: its options, locals, context and exit status
    gr,        \* a get_random call followed with the widths of its counters
    dk,        \* a derive_key call of one hardware implementation, followed on its own
    zeroSeen   \* a random exchange has succeeded with zero bytes

vars == << backend, workload, life, ctx, mutex, wire, dev, pc, call, loc, out, rc, ncalls, caller,
          got, answers, closes, other, prov, tool, gr, dk, zeroSeen >>

\* the state of the library and its callers
libvars == << backend, workload, life, ctx, mutex, wire, dev, pc, call, loc, out, rc, ncalls, caller,
             got, answers, closes, other, zeroSeen >>

NoCall == [op |-> "none", key_slot |-> 0, len_key |-> 0, len_dv |-> 0, dv |-> << >>,
           len_random |-> 0]
NoLoc == [at |-> "", bytesCopied |-> 0, handle |-> "", rc |-> 0, buffer |-> << >>]
NoCmd == [cc |-> "none", owner |-> 0, handle |-> "", buffer |-> << >>, n |-> 0,
          session |-> "", attrs |-> {}]
NoCtx == [tss |-> "none", session |-> "", attrs |-> {}]

Ready(t) == pc[t] \in {"idle", "returned"}

(* ------------------------------ the mutex ------------------------------ *)
\* variant: a mutex that never excludes anybody
CanLockAlways(m, t) == TRUE

\* pthread_mutex_lock returns 0 to thread t: the mutex is initialised and free
CanLock(m, t) == m.owner = 0 /\ m.alive

pthread_mutex_unlock(m, t) == [m EXCEPT !.owner = 0]

\* the mutex pthread_mutex_init leaves
pthread_mutex_init == [owner |-> 0, alive |-> TRUE]

\* the mutex after pthread_mutex_destroy: a locked mutex stays as it is (EBUSY, or a
\* C library whose destroy does nothing); a free one is invalidated or stays usable
pthread_mutex_destroy(m) == IF m.owner # 0 THEN {m} ELSE {[m EXCEPT !.alive = FALSE], m}

(* ---------------------------- the trust anchor ------------------------- *)
\* keys the provisioning left at the persistent handles, and the primary key the
\* TPM derives from the endorsement seed for the fixed template
ProvisionedKey0 == [i \in 1..KEY_LEN |-> i]
ProvisionedKey1 == [i \in 1..KEY_LEN |-> (2 * i + 1) % 256]
EndorsementKey == [i \in 1..KEY_LEN |-> 255 - i]
PersistentHandles == {TPM_KEY0_HANDLE, TPM_KEY1_HANDLE, TPM_SALT_HANDLE}
TransientHandles == << "0x80000000", "0x80000001", "0x80000002" >>
SessionHandles == << "0x02000000", "0x02000001", "0x02000002" >>

DevKey(h) ==
    IF h = TPM_KEY0_HANDLE THEN ProvisionedKey0
    ELSE IF h = TPM_KEY1_HANDLE THEN ProvisionedKey1
    ELSE EndorsementKey

\* the device's random stream
RngByte(k) == (k * 37 + 11) % 256
RngBytes(k, n) == [i \in 1..n |-> RngByte(k + i)]

\* /etc/machine-id: absent, or its bytes (32 hexadecimal characters and a newline
\* on a well-formed system; cut short or with another character otherwise)
HexChars == << 48, 49, 50, 51, 52, 53, 54, 55, 56, 57, 97, 98, 99, 100, 101, 102 >>
MachineId == [i \in 1..33 |-> IF i = 33 THEN 10 ELSE HexChars[((i * 7) % 16) + 1]]
NoFile == [exists |-> FALSE, bytes |-> << >>]
MachineIdFiles ==
    { NoFile,
      [exists |-> TRUE, bytes |-> MachineId],
      [exists |-> TRUE, bytes |-> SubSeq(MachineId, 1, 20)],
      [exists |-> TRUE, bytes |-> [MachineId EXCEPT ![5] = 122]] }

FreeOf(handles, used) == {i \in 1..Len(handles) : handles[i] \notin used}
NextFree(handles, used) ==
    handles[CHOOSE i \in FreeOf(handles, used) : \A j \in FreeOf(handles, used) : i <= j]

Failure == [rc |-> 1, data |-> << >>, handle |-> "", test |-> 0]
Success(data, handle, test) == [rc |-> 0, data |-> data, handle |-> handle, test |-> test]

\* the session StartAuthSession asks for: sessionType, symmetric algorithm and
\* mode, authHash (sent in the attrs field of the command)
HmacSessionDef == {"TPM_SE_HMAC", "TPM_ALG_AES", "TPM_ALG_CFB", "TPM_ALG_SHA256"}

\* session attribute bits: 0x01 continueSession, 0x20 decrypt (command
\* encryption), 0x40 encrypt (response encryption)
\* variant: 0x60, the HMAC command ending the session it uses
Attrs60 == {"decrypt", "encrypt"}

Attrs61 == {"continueSession", "decrypt", "encrypt"}
\* variant: continueSession alone
Attrs01 == {"continueSession"}

Attrs41 == {"continueSession", "encrypt"}

\* the responses the trust anchor can give to command w; it can always fail, and
\* nothing but a failure comes back without a transport
DevResponses(w) ==
    {Failure} \cup
    IF ctx.tss # "up" THEN {}
    ELSE IF w.session # "" /\ w.session \notin dev.sessions THEN {}
    ELSE IF w.cc = "HMAC" THEN
        IF w.handle \in PersistentHandles \cup dev.objs
        THEN {Success(Prefix(HMAC_SHA256(DevKey(w.handle), w.buffer), n), "", 0) :
                 n \in DigestSizes}
        ELSE {}
    ELSE IF w.cc = "GetRandom" THEN
        {Success(RngBytes(dev.rng, n), "", 0) : n \in 0..(w.n + 1)}
    ELSE IF w.cc = "CreatePrimary" THEN
        IF FreeOf(TransientHandles, dev.objs) # {}
        THEN {Success(<< >>, NextFree(TransientHandles, dev.objs), 0)}
        ELSE {}
    ELSE IF w.cc = "StartAuthSession" THEN
        IF FreeOf(SessionHandles, dev.sessions) # {} /\ w.handle \in PersistentHandles
        THEN {Success(<< >>, NextFree(SessionHandles, dev.sessions), 0)}
        ELSE {}
    ELSE IF w.cc = "FlushContext" THEN
        IF w.handle \in dev.objs \cup dev.sessions THEN {Success(<< >>, "", 0)} ELSE {}
    ELSE IF w.cc = "ReadPublic" THEN
        IF w.handle \in PersistentHandles THEN {Success(<< >>, "", 0)} ELSE {}
    ELSE IF w.cc = "SelfTest" THEN {Success(<< >>, "", 0)}
    ELSE IF w.cc = "GetTestResult" THEN {Success(<< >>, "", tr) : tr \in {0, 1}}
    ELSE {}

\* the trust anchor after it answered w with r; a session used without
\* continueSession ends with the command
DevAfter(w, r) ==
    LET d == IF r.rc = 0 /\ w.session # "" /\ "continueSession" \notin w.attrs
             THEN [dev EXCEPT !.sessions = @ \ {w.session}]
             ELSE dev
    IN IF r.rc # 0 THEN d
       ELSE IF w.cc = "GetRandom" THEN [d EXCEPT !.rng = @ + Len(r.data)]
       ELSE IF w.cc = "CreatePrimary" THEN [d EXCEPT !.objs = @ \cup {r.handle}]
       ELSE IF w.cc = "StartAuthSession" THEN [d EXCEPT !.sessions = @ \cup {r.handle}]
       ELSE IF w.cc = "FlushContext"
            THEN [d EXCEPT !.objs = @ \ {w.handle}, !.sessions = @ \ {w.handle}]
       ELSE d

(* ------------------------- steps shared by calls ----------------------- *)
\* thread t enters function c.op: a fresh output buffer is handed in
Enters(t, c) ==
    /\ ncalls < (IF workload = "sequential" THEN MaxCalls ELSE MaxConcurrentCalls)
    /\ Ready(t)
    /\ workload = "sequential" => t = 1
    /\ call' = [call EXCEPT ![t] = c]
    /\ ncalls' = ncalls + 1
    /\ caller' = t
    /\ got' = [got EXCEPT ![t] = << >>]
    /\ answers' = [answers EXCEPT ![t] = << >>]

\* variant: a return that clears the caller's buffer when the code is an error
ReturnsCleared(t, code, buf) ==
    /\ pc' = [pc EXCEPT ![t] = "returned"]
    /\ rc' = [rc EXCEPT ![t] = code]
    /\ out' = [out EXCEPT ![t] = IF code = UTA_SUCCESS THEN buf ELSE [i \in 1..KEY_LEN |-> 0]]
    /\ loc' = [loc EXCEPT ![t] = NoLoc]

\* the call of thread t returns code, leaving buf in the caller's buffer
Returns(t, code, buf) ==
    /\ pc' = [pc EXCEPT ![t] = "returned"]
    /\ rc' = [rc EXCEPT ![t] = code]
    /\ out' = [out EXCEPT ![t] = buf]
    /\ loc' = [loc EXCEPT ![t] = NoLoc]

\* the call of thread t goes on to the library call named l.at
GoesOn(t, where, l, buf) ==
    /\ pc' = [pc EXCEPT ![t] = where]
    /\ loc' = [loc EXCEPT ![t] = l]
    /\ out' = [out EXCEPT ![t] = buf]
    /\ rc' = rc

\* TSS_Execute / Esys_*: the command is written to the transport
Sends(t, cc, handle, buffer, n, session, attrs) ==
    wire' = [cc |-> cc, owner |-> t, handle |-> handle, buffer |-> buffer, n |-> n,
             session |-> session, attrs |-> attrs]

\* the response r to the command on the transport reaches thread t
Receives(t, r) ==
    /\ pc[t] = "xchg"
    /\ r \in DevResponses(wire)
    /\ dev' = DevAfter(wire, r)
    /\ got' = IF wire.cc = "GetRandom" /\ r.rc = 0 /\ wire.owner \in Threads
              THEN [got EXCEPT ![wire.owner] = @ \o r.data]
              ELSE got
    /\ closes' = closes
    /\ other' = other
    /\ prov' = prov
    /\ tool' = tool
    /\ gr' = gr
    /\ dk' = dk
    /\ answers' = IF call[t].op \in {"self_test", "close"}
                  THEN [answers EXCEPT ![t] =
                           Append(@, [cc |-> loc[t].at, rc |-> r.rc, test |-> r.test])]
                  ELSE [answers EXCEPT ![t] =
                           << [cc |-> loc[t].at, rc |-> r.rc, test |-> 0] >>]
    /\ zeroSeen' = (zeroSeen \/ (wire.cc = "GetRandom" /\ r.rc = 0 /\ Len(r.data) = 0))

\* pthread_mutex_lock(&ctx->accesslock) succeeds
Lock(t) ==
    /\ pc[t] = "lock"
    /\ CanLock(mutex, t)
    /\ mutex' = [mutex EXCEPT !.owner = t]
    /\ pc' = [pc EXCEPT ![t] = "locked"]
    /\ UNCHANGED << backend, workload, life, ctx, wire, dev, call, loc, out, rc, ncalls, caller, got, answers, closes, other, prov, tool, gr, dk, zeroSeen >>

\* variant: a failed pthread_mutex_lock reported with a code of its own
LockFailOwnCode(t) ==
    /\ pc[t] = "lock"
    /\ Returns(t, UTA_TA_ERROR + 1, out[t])
    /\ UNCHANGED << backend, workload, life, ctx, mutex, wire, dev, call, ncalls, caller, got, answers, closes, other, prov, tool, gr, dk, zeroSeen >>

\* pthread_mutex_lock fails: every function returns UTA_TA_ERROR at once
LockFail(t) ==
    /\ pc[t] = "lock"
    /\ Returns(t, UTA_TA_ERROR, out[t])
    /\ UNCHANGED << backend, workload, life, ctx, mutex, wire, dev, call, ncalls, caller, got, answers, closes, other, prov, tool, gr, dk, zeroSeen >>

Others == << backend, workload, ctx, mutex, wire, dev, closes, other, prov, tool, gr, dk, zeroSeen >>

DeriveKeyCall(key_slot, len_dv, len_key, s) ==
    [op |-> "derive_key", key_slot |-> key_slot, len_key |-> len_key, len_dv |-> len_dv,
     dv |-> DvBuffer(s, len_dv), len_random |-> 0]

GetRandomCall(len_random) ==
    [op |-> "get_random", key_slot |-> 0, len_key |-> 0, len_dv |-> 0, dv |-> << >>,
     len_random |-> len_random]

PlainCall(op) ==
    [op |-> op, key_slot |-> 0, len_key |-> 0, len_dv |-> 0, dv |-> << >>, len_random |-> 0]

(* ------------------ the function table and shared entries ------------- *)
\* configure.ac: the macro AC_DEFINE'd for HARDWARE = hw
Defined(hw) == {[UTA_SIM |-> "HW_BACKEND_UTA_SIM", TPM_IBM |-> "HW_BACKEND_TPM_IBM",
                 TPM_TCG |-> "HW_BACKEND_TPM_TCG"][hw]}

\* enum uta_type of uta_version_t
uta_type_enum == [UTA_SIM |-> 0, TPM_IBM |-> 1, TPM_TCG |-> 2]

\* AC_INIT: VERSION is "1.2.0"
VERSION == << 1, 2, 0 >>

\* the seven functions of backend impl, under the names of the table entries
BackendTable(impl, prefix) ==
    [context_v1_size |-> [impl |-> impl, fn |-> prefix \o "_context_v1_size"],
     open            |-> [impl |-> impl, fn |-> prefix \o "_open"],
     close           |-> [impl |-> impl, fn |-> prefix \o "_close"],
     derive_key      |-> [impl |-> impl, fn |-> prefix \o "_derive_key"],
     get_random      |-> [impl |-> impl, fn |-> prefix \o "_get_random"],
     self_test       |-> [impl |-> impl, fn |-> prefix \o "_self_test"],
     get_device_uuid |-> [impl |-> impl, fn |-> prefix \o "_get_device_uuid"]]

\* the two hardware independent entries
SharedTable ==
    [get_version |-> [impl |-> "shared", fn |-> "uta_get_version"],
     len_key_max |-> [impl |-> "shared", fn |-> "uta_len_key_max"]]

\* record r extended by the fields of record q
Extended(r, q) ==
    [f \in DOMAIN r \cup DOMAIN q |-> IF f \in DOMAIN q THEN q[f] ELSE r[f]]

\* uta_init_v1 compiled with the macros defs: the #if / #elif chain, then the
\* hardware independent entries; without a backend macro the build stops (#error)
uta_init_v1(defs) ==
    LET filled == IF "HW_BACKEND_TPM_IBM" \in defs THEN BackendTable("TPM_IBM", "tpm")
                  ELSE IF "HW_BACKEND_UTA_SIM" \in defs THEN BackendTable("UTA_SIM", "sim")
                  ELSE BackendTable("TPM_TCG", "tpm")
    IN [rc |-> UTA_SUCCESS, uta |-> Extended(filled, SharedTable)]

\* variant: uta_get_version with the tag of the IBM-stack backend in every build
uta_get_version_tag_ibm(defs) == uta_type_enum.TPM_IBM

\* uta_get_version compiled with the macros defs: the three #ifdef blocks in turn
uta_get_version_tag(defs) ==
    LET a == IF "HW_BACKEND_TPM_IBM" \in defs THEN uta_type_enum.TPM_IBM ELSE Untouched
        b == IF "HW_BACKEND_UTA_SIM" \in defs THEN uta_type_enum.UTA_SIM ELSE a
    IN IF "HW_BACKEND_TPM_TCG" \in defs THEN uta_type_enum.TPM_TCG ELSE b

\* variant: uta_get_version taking the lock of the context first
uta_get_version_locked(t) ==
    /\ Enters(t, PlainCall("get_version"))
    /\ GoesOn(t, "lock", NoLoc, FreshBuf)
    /\ UNCHANGED << life, Others >>

\* uta_get_version: the tag and sscanf(VERSION, "%u.%u.%u"); no lock, no transport
uta_get_version(t) ==
    /\ Enters(t, PlainCall("get_version"))
    /\ Returns(t, UTA_SUCCESS,
               memcpy(FreshBuf, << uta_get_version_tag(Defined(backend)) >> \o VERSION, 4))
    /\ UNCHANGED << life, Others >>

\* uta_len_key_max: returns 32 (a size, no return code)
uta_len_key_max(t) ==
    /\ Enters(t, PlainCall("len_key_max"))
    /\ Returns(t, Untouched, memcpy(FreshBuf, << 32 >>, 1))
    /\ UNCHANGED << life, Others >>

(* --------------------- simulation backend: uta_sim.c ------------------- *)
\* variant: the checks of sim_derive_key without the check of len_dv
sim_derive_key_check_no_dv(key_slot, len_dv, len_key) ==
    IF key_slot > USED_KEY_SLOTS - 1 THEN UTA_INVALID_KEY_SLOT
    ELSE IF len_key > KEY_LEN THEN UTA_INVALID_KEY_LENGTH
    ELSE UTA_SUCCESS

\* variant: the key length checked before the dv length
sim_derive_key_check_len_key_first(key_slot, len_dv, len_key) ==
    IF key_slot > USED_KEY_SLOTS - 1 THEN UTA_INVALID_KEY_SLOT
    ELSE IF len_key > KEY_LEN THEN UTA_INVALID_KEY_LENGTH
    ELSE IF len_dv # DERIV_VAL_LEN THEN UTA_INVALID_DV_LENGTH
    ELSE UTA_SUCCESS

\* the argument checks of sim_derive_key, in the order of the code
sim_derive_key_check(key_slot, len_dv, len_key) ==
    IF key_slot > USED_KEY_SLOTS - 1 THEN UTA_INVALID_KEY_SLOT
    ELSE IF len_dv # DERIV_VAL_LEN THEN UTA_INVALID_DV_LENGTH
    ELSE IF len_key > KEY_LEN THEN UTA_INVALID_KEY_LENGTH
    ELSE UTA_SUCCESS

\* variant: the HMAC always taken with the key of slot 0
sim_key_buffer_slot0(key_slot, dv, len_dv) == HMAC_SHA256(KEY_SLOTS[1], Prefix(dv, len_dv))

\* mbedtls_md_hmac(sha256_hmac, KEY_SLOTS[key_slot], KEY_LEN, dv, len_dv, key_buffer)
sim_key_buffer(key_slot, dv, len_dv) ==
    HMAC_SHA256(KEY_SLOTS[key_slot + 1], Prefix(dv, len_dv))

sim_derive_key(t) ==
    /\ backend = "UTA_SIM"
    /\ life = "open"
    /\ \E key_slot \in KeySlots(workload), len_dv \in LenDvs(workload),
          len_key \in LenKeys(workload), s \in DerivStrings(workload) :
          LET c == DeriveKeyCall(key_slot, len_dv, len_key, s)
              code == sim_derive_key_check(key_slot, len_dv, len_key)
          IN /\ Enters(t, c)
             /\ IF code # UTA_SUCCESS
                THEN Returns(t, code, FreshBuf)
                ELSE Returns(t, UTA_SUCCESS,
                             memcpy(FreshBuf, sim_key_buffer(key_slot, c.dv, len_dv), len_key))
    /\ UNCHANGED << life, Others >>

\* rand() % 256 at position seed of the generator's stream
sim_rand(seed) == RngByte(seed + 1)

\* sim_get_random up to the first pass of for(i = 0; i < len_random; i++)
sim_get_random(t) ==
    /\ backend = "UTA_SIM"
    /\ life = "open"
    /\ \E len_random \in LenRandoms :
          /\ Enters(t, GetRandomCall(len_random))
          /\ IF 0 < len_random
             THEN GoesOn(t, "rand", NoLoc, FreshBuf)
             ELSE Returns(t, UTA_SUCCESS, FreshBuf)
    /\ UNCHANGED << life, Others >>

\* one pass of the loop: random[i] = rand() % 256; i++ (i is loc.bytesCopied)
sim_get_random_loop(t) ==
    /\ backend = "UTA_SIM"
    /\ pc[t] = "rand"
    /\ LET i == loc[t].bytesCopied
           byte == sim_rand(dev.rng)
           buf == [out[t] EXCEPT ![i + 1] = byte]
       IN /\ dev' = [dev EXCEPT !.rng = @ + 1]
          /\ got' = [got EXCEPT ![t] = Append(@, byte)]
          /\ IF i + 1 < call[t].len_random
             THEN GoesOn(t, "rand", [loc[t] EXCEPT !.bytesCopied = i + 1], buf)
             ELSE Returns(t, UTA_SUCCESS, buf)
    /\ UNCHANGED << backend, workload, life, ctx, mutex, wire, call, ncalls, caller, answers, closes, other, prov, tool, gr, dk, zeroSeen >>

\* the value of a hexadecimal digit character, -1 for any other character
HexDigit(c) ==
    IF 48 <= c /\ c <= 57 THEN c - 48
    ELSE IF 97 <= c /\ c <= 102 THEN c - 87
    ELSE IF 65 <= c /\ c <= 70 THEN c - 55
    ELSE 0 - 1

\* sscanf(&machine_id[i*2], "%02hhX", &tmp_uuid[i]): the byte stored, -1 when the
\* conversion fails (ret != 1)
ScanByte(c1, c2) ==
    IF HexDigit(c1) < 0 THEN 0 - 1
    ELSE IF HexDigit(c2) < 0 THEN HexDigit(c1)
    ELSE 16 * HexDigit(c1) + HexDigit(c2)

\* the 16 bytes of tmp_uuid converted from the 32 characters read
sim_tmp_uuid(machine_id) == [i \in 1..UUID_LEN |-> ScanByte(machine_id[2 * i - 1], machine_id[2 * i])]

\* sim_get_device_uuid: fopen, fread of 32 characters, the conversion, memcpy of
\* 16 bytes; the bytes are not formatted
sim_get_device_uuid(t) ==
    /\ backend = "UTA_SIM"
    /\ life = "open"
    /\ Enters(t, PlainCall("get_device_uuid"))
    /\ IF ~dev.file.exists THEN Returns(t, UTA_TA_ERROR, FreshBuf)
       ELSE IF Len(dev.file.bytes) < 32 THEN Returns(t, UTA_TA_ERROR, FreshBuf)
       ELSE IF \E i \in 1..UUID_LEN : sim_tmp_uuid(dev.file.bytes)[i] < 0
            THEN Returns(t, UTA_TA_ERROR, FreshBuf)
       ELSE Returns(t, UTA_SUCCESS, memcpy(FreshBuf, sim_tmp_uuid(dev.file.bytes), UUID_LEN))
    /\ UNCHANGED << life, Others >>

sim_self_test(t) ==
    /\ backend = "UTA_SIM"
    /\ life = "open"
    /\ Enters(t, PlainCall("self_test"))
    /\ Returns(t, UTA_SUCCESS, FreshBuf)
    /\ UNCHANGED << life, Others >>

\* sim_open: srand(time(&t)) puts the process-wide generator at a position given by
\* the clock
sim_open(t) ==
    /\ backend = "UTA_SIM"
    /\ life = "closed"
    /\ \A u \in Threads : Ready(u)
    /\ Enters(t, PlainCall("open"))
    /\ Returns(t, UTA_SUCCESS, FreshBuf)
    /\ \E seed \in Seeds : dev' = [dev EXCEPT !.rng = seed]
    /\ life' = "open"
    /\ UNCHANGED << backend, workload, ctx, mutex, wire, closes, other, prov, tool, gr, dk, zeroSeen >>

sim_close(t) ==
    /\ backend = "UTA_SIM"
    /\ life = "open"
    /\ Enters(t, PlainCall("close"))
    /\ Returns(t, UTA_SUCCESS, FreshBuf)
    /\ life' = "closed"
    /\ closes' = closes + 1
    /\ UNCHANGED << backend, workload, ctx, mutex, wire, dev, other, prov, tool, gr, dk, zeroSeen >>

\* sim_open on the second context: srand() seeds the generator of the process
sim_open_other(t) ==
    /\ backend = "UTA_SIM"
    /\ other = "closed"
    /\ Ready(t)
    /\ workload = "sequential" => t = 1
    /\ \E seed \in Seeds : dev' = [dev EXCEPT !.rng = seed]
    /\ other' = "open"
    /\ UNCHANGED << backend, workload, life, ctx, mutex, wire, pc, call, loc, out, rc, ncalls,
                    caller, got, answers, closes, prov, tool, gr, dk, zeroSeen >>

\* sim_close on the second context
sim_close_other(t) ==
    /\ backend = "UTA_SIM"
    /\ other = "open"
    /\ Ready(t)
    /\ workload = "sequential" => t = 1
    /\ other' = "closed"
    /\ UNCHANGED << backend, workload, life, ctx, mutex, wire, dev, pc, call, loc, out, rc, ncalls,
                    caller, got, answers, closes, prov, tool, gr, dk, zeroSeen >>

(* ------------------ IBM-stack backend: tpm_* of uta.c ------------------ *)
\* switch(key_slot): the persistent handle of the slot ("" on the default branch)
ibm_hmacKeyHandle(key_slot) ==
    IF key_slot = 0 THEN TPM_KEY0_HANDLE
    ELSE IF key_slot = 1 THEN TPM_KEY1_HANDLE
    ELSE ""

\* variant: the checks of tpm_derive_key with the length of the derivation value checked first
ibm_derive_key_check_dv_first(key_slot, len_dv, len_key) ==
    IF len_dv # 8 THEN UTA_INVALID_DV_LENGTH
    ELSE IF key_slot > USED_KEY_SLOTS - 1 THEN UTA_INVALID_KEY_SLOT
    ELSE IF len_key > 32 THEN UTA_INVALID_KEY_LENGTH
    ELSE UTA_SUCCESS

\* the argument checks of tpm_derive_key, in the order of the code
ibm_derive_key_check(key_slot, len_dv, len_key) ==
    IF key_slot > USED_KEY_SLOTS - 1 THEN UTA_INVALID_KEY_SLOT
    ELSE IF ibm_hmacKeyHandle(key_slot) = "" THEN UTA_INVALID_KEY_SLOT
    ELSE IF len_dv # 8 THEN UTA_INVALID_DV_LENGTH
    ELSE IF len_key > 32 THEN UTA_INVALID_KEY_LENGTH
    ELSE UTA_SUCCESS

\* tpm_derive_key up to pthread_mutex_lock
ibm_tpm_derive_key(t) ==
    /\ backend = "TPM_IBM"
    /\ life = "open"
    /\ \E key_slot \in KeySlots(workload), len_dv \in LenDvs(workload),
          len_key \in LenKeys(workload), s \in DerivStrings(workload) :
          LET code == ibm_derive_key_check(key_slot, len_dv, len_key)
          IN /\ Enters(t, DeriveKeyCall(key_slot, len_dv, len_key, s))
             /\ IF code # UTA_SUCCESS
                THEN Returns(t, code, FreshBuf)
                ELSE GoesOn(t, "lock", NoLoc, FreshBuf)
    /\ UNCHANGED << life, Others >>

\* tpm_calc_hmac: TSS_Execute(TPM_CC_HMAC) with the session and attributes 0x61; only
\* the first DERIV_STR_LEN bytes of the derivation value go into the command
ibm_tpm_calc_hmac(t, deriv_val, hmacKeyHandle) ==
    Sends(t, "HMAC", hmacKeyHandle, Prefix(deriv_val, DERIV_STR_LEN), 0, ctx.session, Attrs61)

\* the caller's hmac buffer after tpm_calc_hmac copied out.outHMAC.t.size bytes to
\* it: the rest of the 32-byte stack buffer keeps its uninitialised bytes g
ibm_hmac_buffer(r, g) == [i \in 1..KEY_LEN |-> IF i <= Len(r.data) THEN r.data[i] ELSE g]

ibm_tpm_derive_key_hmac(t) ==
    /\ backend = "TPM_IBM"
    /\ pc[t] = "locked"
    /\ call[t].op = "derive_key"
    /\ ibm_tpm_calc_hmac(t, call[t].dv, ibm_hmacKeyHandle(call[t].key_slot))
    /\ GoesOn(t, "xchg", [NoLoc EXCEPT !.at = "HMAC"], out[t])
    /\ UNCHANGED << backend, workload, life, ctx, mutex, dev, call, ncalls, caller, got, answers, closes, other, prov, tool, gr, dk, zeroSeen >>

\* the response: unlock, then UTA_TA_ERROR or memcpy(key, key_buffer, len_key)
ibm_tpm_derive_key_done(t) ==
    /\ backend = "TPM_IBM"
    /\ call[t].op = "derive_key"
    /\ loc[t].at = "HMAC"
    /\ \E r \in DevResponses(wire), g \in StackBytes :
          /\ Receives(t, r)
          /\ mutex' = pthread_mutex_unlock(mutex, t)
          /\ IF r.rc # 0
             THEN Returns(t, UTA_TA_ERROR, out[t])
             ELSE Returns(t, UTA_SUCCESS, memcpy(out[t], ibm_hmac_buffer(r, g), call[t].len_key))
    /\ wire' = NoCmd
    /\ UNCHANGED << backend, workload, life, ctx, call, ncalls, caller >>

\* tpm_get_random up to pthread_mutex_lock
ibm_tpm_get_random(t) ==
    /\ backend = "TPM_IBM"
    /\ life = "open"
    /\ \E len_random \in LenRandoms :
          /\ Enters(t, GetRandomCall(len_random))
          /\ GoesOn(t, "lock", NoLoc, FreshBuf)
    /\ UNCHANGED << life, Others >>

\* variant: the copy loop writing every response from the start of the buffer
CopyRandomFromStart(buf, bytesCopied, data, bytesRequested) ==
    LET n == Min(Len(data), bytesRequested - bytesCopied)
    IN [buf |-> [i \in 1..Len(buf) |-> IF i <= n THEN data[i] ELSE buf[i]],
        bytesCopied |-> bytesCopied + n]

\* variant: the copy loop taking every byte that was received
CopyRandomAllReceived(buf, bytesCopied, data, bytesRequested) ==
    LET n == Len(data)
    IN [buf |-> [i \in 1..Len(buf) |->
                    IF bytesCopied < i /\ i <= bytesCopied + n THEN data[i - bytesCopied]
                    ELSE buf[i]],
        bytesCopied |-> bytesCopied + n]

\* the copy loop of tpm_get_rand / tpm_get_random: as many bytes as were received
\* or until bytesRequested are there; the buffer and bytesCopied after it
CopyRandom(buf, bytesCopied, data, bytesRequested) ==
    LET n == Min(Len(data), bytesRequested - bytesCopied)
    IN [buf |-> [i \in 1..Len(buf) |->
                    IF bytesCopied < i /\ i <= bytesCopied + n THEN data[i - bytesCopied]
                    ELSE buf[i]],
        bytesCopied |-> bytesCopied + n]

\* variant: every exchange asks for the whole len_random again
WholeRequest(bytesRequested, bytesCopied) == bytesRequested

\* in.bytesRequested = bytesRequested - bytesCopied: an exchange asks for what is left
LeftRequest(bytesRequested, bytesCopied) == bytesRequested - bytesCopied

\* tpm_get_rand before the first exchange: the loop is entered when bytes are asked for
ibm_tpm_get_rand(t) ==
    /\ backend = "TPM_IBM"
    /\ pc[t] = "locked"
    /\ call[t].op = "get_random"
    /\ IF 0 < call[t].len_random
       THEN /\ Sends(t, "GetRandom", "", << >>, LeftRequest(call[t].len_random, 0),
                     ctx.session, Attrs41)
            /\ GoesOn(t, "xchg", [NoLoc EXCEPT !.at = "GetRandom"], out[t])
            /\ mutex' = mutex
       ELSE /\ wire' = wire
            /\ mutex' = pthread_mutex_unlock(mutex, t)
            /\ Returns(t, UTA_SUCCESS, out[t])
    /\ UNCHANGED << backend, workload, life, ctx, dev, call, ncalls, caller, got, answers, closes, other, prov, tool, gr, dk, zeroSeen >>

\* variant: a loop that goes on while bytes are missing, whatever TSS_Execute returned
ibm_get_rand_retries(rc_, bytesCopied, bytesRequested) == bytesCopied < bytesRequested

\* the loop condition of tpm_get_rand: (rc == 0) && (bytesCopied < bytesRequested)
ibm_get_rand_goes_on(rc_, bytesCopied, bytesRequested) ==
    rc_ = 0 /\ bytesCopied < bytesRequested

\* one pass of the loop of tpm_get_rand after TSS_Execute(TPM_CC_GetRandom) returned:
\* the copy when rc is 0, the loop condition, and after the loop the unlock and the
\* return of tpm_get_random
ibm_tpm_get_rand_loop(t) ==
    /\ backend = "TPM_IBM"
    /\ call[t].op = "get_random"
    /\ loc[t].at = "GetRandom"
    /\ \E r \in DevResponses(wire) :
          /\ Receives(t, r)
          /\ LET c == IF r.rc = 0
                      THEN CopyRandom(out[t], loc[t].bytesCopied, r.data, call[t].len_random)
                      ELSE [buf |-> out[t], bytesCopied |-> loc[t].bytesCopied]
             IN IF ibm_get_rand_goes_on(r.rc, c.bytesCopied, call[t].len_random)
                THEN /\ Sends(t, "GetRandom", "", << >>,
                              LeftRequest(call[t].len_random, c.bytesCopied),
                              ctx.session, Attrs41)
                     /\ GoesOn(t, "xchg", [loc[t] EXCEPT !.bytesCopied = c.bytesCopied],
                               c.buf)
                     /\ mutex' = mutex
                ELSE /\ wire' = NoCmd
                     /\ mutex' = pthread_mutex_unlock(mutex, t)
                     /\ Returns(t, IF r.rc # 0 THEN UTA_TA_ERROR ELSE UTA_SUCCESS, c.buf)
    /\ UNCHANGED << backend, workload, life, ctx, call, ncalls, caller >>

\* variant: get_device_uuid taking the HMAC with the key of slot 1
UuidKeySlot1(handle) == TPM_KEY1_HANDLE

\* the key get_device_uuid takes the HMAC with: the object handle that the creation of
\* the endorsement primary key returned
UuidKey(handle) == handle

\* tpm_get_device_uuid up to pthread_mutex_lock
ibm_tpm_get_device_uuid(t) ==
    /\ backend = "TPM_IBM"
    /\ life = "open"
    /\ Enters(t, PlainCall("get_device_uuid"))
    /\ GoesOn(t, "lock", NoLoc, FreshBuf)
    /\ UNCHANGED << life, Others >>

\* tpm_create_endosement_key: TSS_Execute(TPM_CC_CreatePrimary), password session
ibm_tpm_create_endosement_key(t) ==
    /\ backend = "TPM_IBM"
    /\ pc[t] = "locked"
    /\ call[t].op = "get_device_uuid"
    /\ Sends(t, "CreatePrimary", "", << >>, 0, "", {})
    /\ GoesOn(t, "xchg", [NoLoc EXCEPT !.at = "CreatePrimary"], out[t])
    /\ UNCHANGED << backend, workload, life, ctx, mutex, dev, call, ncalls, caller, got, answers, closes, other, prov, tool, gr, dk, zeroSeen >>

\* after tpm_create_endosement_key: unlock and UTA_TA_ERROR, or tpm_calc_hmac of
\* "DEVICEID" with the new key
ibm_tpm_get_device_uuid_hmac(t) ==
    /\ backend = "TPM_IBM"
    /\ call[t].op = "get_device_uuid"
    /\ loc[t].at = "CreatePrimary"
    /\ \E r \in DevResponses(wire) :
          /\ Receives(t, r)
          /\ IF r.rc # 0
             THEN /\ wire' = NoCmd
                  /\ mutex' = pthread_mutex_unlock(mutex, t)
                  /\ Returns(t, UTA_TA_ERROR, out[t])
             ELSE /\ ibm_tpm_calc_hmac(t, DEVICEID, UuidKey(r.handle))
                  /\ mutex' = mutex
                  /\ GoesOn(t, "xchg", [loc[t] EXCEPT !.at = "HMAC", !.handle = r.handle], out[t])
    /\ UNCHANGED << backend, workload, life, ctx, call, ncalls, caller >>

\* after tpm_calc_hmac: tpm_flush_context(handle), whatever the HMAC returned
ibm_tpm_get_device_uuid_flush(t) ==
    /\ backend = "TPM_IBM"
    /\ call[t].op = "get_device_uuid"
    /\ loc[t].at = "HMAC"
    /\ \E r \in DevResponses(wire), g \in StackBytes :
          /\ Receives(t, r)
          /\ Sends(t, "FlushContext", loc[t].handle, << >>, 0, "", {})
          /\ GoesOn(t, "xchg",
                    [loc[t] EXCEPT !.at = "FlushContext", !.rc = r.rc,
                                   !.buffer = IF r.rc = 0 THEN ibm_hmac_buffer(r, g) ELSE << >>],
                    out[t])
    /\ UNCHANGED << backend, workload, life, ctx, mutex, call, ncalls, caller >>

\* after tpm_flush_context (result ignored): unlock, then UTA_TA_ERROR or the first
\* 16 bytes of hmac_output, formatted
ibm_tpm_get_device_uuid_done(t) ==
    /\ backend = "TPM_IBM"
    /\ call[t].op = "get_device_uuid"
    /\ loc[t].at = "FlushContext"
    /\ \E r \in DevResponses(wire) :
          /\ Receives(t, r)
          /\ mutex' = pthread_mutex_unlock(mutex, t)
          /\ IF loc[t].rc # 0
             THEN Returns(t, UTA_TA_ERROR, out[t])
             ELSE Returns(t, UTA_SUCCESS, FormatUuid(memcpy(out[t], loc[t].buffer, UUID_LEN)))
    /\ wire' = NoCmd
    /\ UNCHANGED << backend, workload, life, ctx, call, ncalls, caller >>

\* tpm_self_test up to pthread_mutex_lock
ibm_tpm_self_test(t) ==
    /\ backend = "TPM_IBM"
    /\ life = "open"
    /\ Enters(t, PlainCall("self_test"))
    /\ GoesOn(t, "lock", NoLoc, FreshBuf)
    /\ UNCHANGED << life, Others >>

\* tpm_start_selftest: TSS_Execute(TPM_CC_SelfTest)
ibm_tpm_start_selftest(t) ==
    /\ backend = "TPM_IBM"
    /\ pc[t] = "locked"
    /\ call[t].op = "self_test"
    /\ Sends(t, "SelfTest", "", << >>, 0, "", {})
    /\ GoesOn(t, "xchg", [NoLoc EXCEPT !.at = "SelfTest"], out[t])
    /\ UNCHANGED << backend, workload, life, ctx, mutex, dev, call, ncalls, caller, got, answers, closes, other, prov, tool, gr, dk, zeroSeen >>

\* after tpm_start_selftest: unlock and UTA_TA_ERROR, or tpm_get_test_result
ibm_tpm_get_test_result(t) ==
    /\ backend = "TPM_IBM"
    /\ call[t].op = "self_test"
    /\ loc[t].at = "SelfTest"
    /\ \E r \in DevResponses(wire) :
          /\ Receives(t, r)
          /\ IF r.rc # 0
             THEN /\ wire' = NoCmd
                  /\ mutex' = pthread_mutex_unlock(mutex, t)
                  /\ Returns(t, UTA_TA_ERROR, out[t])
             ELSE /\ Sends(t, "GetTestResult", "", << >>, 0, "", {})
                  /\ mutex' = mutex
                  /\ GoesOn(t, "xchg", [loc[t] EXCEPT !.at = "GetTestResult"], out[t])
    /\ UNCHANGED << backend, workload, life, ctx, call, ncalls, caller >>

\* variant: the checks after tpm_get_test_result without the one of testResult
ibm_self_test_result_unchecked(rc_, testResult) ==
    IF rc_ # 0 THEN UTA_TA_ERROR ELSE UTA_SUCCESS

\* the two checks after tpm_get_test_result: if(rc != 0), if(testResult != 0)
ibm_self_test_result(rc_, testResult) ==
    IF rc_ # 0 THEN UTA_TA_ERROR
    ELSE IF testResult # 0 THEN UTA_TA_ERROR
    ELSE UTA_SUCCESS

\* after tpm_get_test_result: unlock, then the two checks
ibm_tpm_self_test_done(t) ==
    /\ backend = "TPM_IBM"
    /\ call[t].op = "self_test"
    /\ loc[t].at = "GetTestResult"
    /\ \E r \in DevResponses(wire) :
          /\ Receives(t, r)
          /\ mutex' = pthread_mutex_unlock(mutex, t)
          /\ Returns(t, ibm_self_test_result(r.rc, r.test), out[t])
    /\ wire' = NoCmd
    /\ UNCHANGED << backend, workload, life, ctx, call, ncalls, caller >>

\* tpm_open up to tpm_start_hmac_session: pthread_mutex_init, pthread_mutex_lock,
\* TSS_Create and the TSS_SetProperty calls can each fail; after the lock is taken
\* no error return releases it
ibm_tpm_open(t) ==
    /\ backend = "TPM_IBM"
    /\ life = "closed"
    /\ \A u \in Threads : Ready(u)
    /\ Enters(t, PlainCall("open"))
    /\ \E failed \in {"pthread_mutex_init", "pthread_mutex_lock", "TSS_Create",
                      "TSS_SetProperty", "none"} :
          IF failed = "pthread_mutex_init"
          THEN /\ Returns(t, UTA_TA_ERROR, FreshBuf)
               /\ UNCHANGED << mutex, ctx, wire >>
          ELSE IF failed = "pthread_mutex_lock"
          THEN /\ mutex' = pthread_mutex_init
               /\ Returns(t, UTA_TA_ERROR, FreshBuf)
               /\ UNCHANGED << ctx, wire >>
          ELSE IF failed \in {"TSS_Create", "TSS_SetProperty"}
          THEN /\ mutex' = [pthread_mutex_init EXCEPT !.owner = t]
               /\ ctx' = [ctx EXCEPT !.tss = "none"]
               /\ Returns(t, UTA_TA_ERROR, FreshBuf)
               /\ wire' = wire
          ELSE /\ mutex' = [pthread_mutex_init EXCEPT !.owner = t]
               /\ ctx' = [ctx EXCEPT !.tss = "up"]
               /\ Sends(t, "StartAuthSession", TPM_SALT_HANDLE, << >>, 0, "", HmacSessionDef)
               /\ GoesOn(t, "xchg", [NoLoc EXCEPT !.at = "StartAuthSession"], FreshBuf)
    /\ UNCHANGED << backend, workload, life, dev, closes, other, prov, tool, gr, dk, zeroSeen >>

\* variant: tpm_start_hmac_session leaving authSessionHandle as it was
ibm_keep_session(c, sessionHandle) == c

\* tpm_start_hmac_session, if(rc == 0): authSessionHandle = out.sessionHandle
ibm_store_session(c, sessionHandle) == [c EXCEPT !.session = sessionHandle]

\* after tpm_start_hmac_session: TSS_Delete and UTA_TA_ERROR with the lock held, or
\* the session handle is stored, the lock released
ibm_tpm_open_done(t) ==
    /\ backend = "TPM_IBM"
    /\ call[t].op = "open"
    /\ loc[t].at = "StartAuthSession"
    /\ \E r \in DevResponses(wire) :
          /\ Receives(t, r)
          /\ IF r.rc # 0
             THEN /\ ctx' = [ctx EXCEPT !.tss = "none"]
                  /\ mutex' = mutex
                  /\ life' = life
                  /\ Returns(t, UTA_TA_ERROR, out[t])
             ELSE /\ ctx' = ibm_store_session(ctx, r.handle)
                  /\ mutex' = pthread_mutex_unlock(mutex, t)
                  /\ life' = "open"
                  /\ Returns(t, UTA_SUCCESS, out[t])
    /\ wire' = NoCmd
    /\ UNCHANGED << backend, workload, call, ncalls, caller >>

\* tpm_close up to pthread_mutex_lock; the callers make no further call on the
\* context once one of them has called close
ibm_tpm_close(t) ==
    /\ backend = "TPM_IBM"
    /\ life = "open"
    /\ Enters(t, PlainCall("close"))
    /\ GoesOn(t, "lock", NoLoc, FreshBuf)
    /\ life' = "closing"
    /\ UNCHANGED Others

\* variant: a TSS_Delete that reports success and leaves the TSS context in place
ibm_TSS_Kept(c) == c

\* TSS_Delete(tssContext) returning 0: the transport is released
ibm_TSS_Delete(c) == [c EXCEPT !.tss = "none"]

\* TSS_Delete in tpm_close: on failure UTA_TA_ERROR with the lock held; otherwise
\* the lock is released and pthread_mutex_destroy comes next
ibm_tpm_close_TSS_Delete(t) ==
    \E ok \in BOOLEAN :
        IF ok
        THEN /\ ctx' = ibm_TSS_Delete(ctx)
             /\ mutex' = pthread_mutex_unlock(mutex, t)
             /\ life' = life
             /\ GoesOn(t, "destroy", NoLoc, out[t])
        ELSE /\ ctx' = ctx
             /\ mutex' = mutex
             /\ life' = "closed"
             /\ Returns(t, UTA_TA_ERROR, out[t])

\* tpm_close with the lock: tpm_flush_context(authSessionHandle) when the handle is
\* not 0
ibm_tpm_close_flush(t) ==
    /\ backend = "TPM_IBM"
    /\ pc[t] = "locked"
    /\ call[t].op = "close"
    /\ IF ctx.session # ""
       THEN /\ Sends(t, "FlushContext", ctx.session, << >>, 0, "", {})
            /\ GoesOn(t, "xchg", [NoLoc EXCEPT !.at = "FlushContext"], out[t])
            /\ UNCHANGED << ctx, mutex, life >>
       ELSE /\ ibm_tpm_close_TSS_Delete(t)
            /\ wire' = wire
    /\ UNCHANGED << backend, workload, dev, call, ncalls, caller, got, answers, closes, other, prov, tool, gr, dk, zeroSeen >>

\* after tpm_flush_context (result ignored): TSS_Delete
ibm_tpm_close_delete(t) ==
    /\ backend = "TPM_IBM"
    /\ call[t].op = "close"
    /\ loc[t].at = "FlushContext"
    /\ \E r \in DevResponses(wire) : Receives(t, r)
    /\ ibm_tpm_close_TSS_Delete(t)
    /\ wire' = NoCmd
    /\ UNCHANGED << backend, workload, call, ncalls, caller >>

\* pthread_mutex_destroy (result ignored) and return
ibm_tpm_close_destroy(t) ==
    /\ backend = "TPM_IBM"
    /\ pc[t] = "destroy"
    /\ mutex' \in pthread_mutex_destroy(mutex)
    /\ life' = "closed"
    /\ closes' = closes + 1
    /\ Returns(t, UTA_SUCCESS, out[t])
    /\ UNCHANGED << backend, workload, ctx, wire, dev, call, ncalls, caller, got, answers, other, prov, tool, gr, dk, zeroSeen >>

(* ---------------------- TCG-stack backend: tpm_tcg.c ------------------- *)
\* switch(key_slot): the persistent handle of the slot ("" on the default branch)
tcg_TPMhmacKeyHandle(key_slot) ==
    IF key_slot = 0 THEN TPM_KEY0_HANDLE
    ELSE IF key_slot = 1 THEN TPM_KEY1_HANDLE
    ELSE ""

\* variant: the checks of tpm_derive_key with a limit of 33 bytes
tcg_derive_key_check_33(key_slot, len_dv, len_key) ==
    IF key_slot > USED_KEY_SLOTS - 1 THEN UTA_INVALID_KEY_SLOT
    ELSE IF len_dv # 8 THEN UTA_INVALID_DV_LENGTH
    ELSE IF len_key > 33 THEN UTA_INVALID_KEY_LENGTH
    ELSE UTA_SUCCESS

\* the argument checks of tpm_derive_key, in the order of the code
tcg_derive_key_check(key_slot, len_dv, len_key) ==
    IF key_slot > USED_KEY_SLOTS - 1 THEN UTA_INVALID_KEY_SLOT
    ELSE IF tcg_TPMhmacKeyHandle(key_slot) = "" THEN UTA_INVALID_KEY_SLOT
    ELSE IF len_dv # 8 THEN UTA_INVALID_DV_LENGTH
    ELSE IF len_key > 32 THEN UTA_INVALID_KEY_LENGTH
    ELSE UTA_SUCCESS

\* Esys_TRSess_SetAttributes(esys_context, session, flags, 0xff) can succeed: the
\* ESYS context is there and the handle names a session object of it
SetAttributesOk == ctx.tss = "up" /\ ctx.session # ""

\* tpm_derive_key up to pthread_mutex_lock
tcg_tpm_derive_key(t) ==
    /\ backend = "TPM_TCG"
    /\ life = "open"
    /\ \E key_slot \in KeySlots(workload), len_dv \in LenDvs(workload),
          len_key \in LenKeys(workload), s \in DerivStrings(workload) :
          LET code == tcg_derive_key_check(key_slot, len_dv, len_key)
          IN /\ Enters(t, DeriveKeyCall(key_slot, len_dv, len_key, s))
             /\ IF code # UTA_SUCCESS
                THEN Returns(t, code, FreshBuf)
                ELSE GoesOn(t, "lock", NoLoc, FreshBuf)
    /\ UNCHANGED << life, Others >>

\* Esys_TR_FromTPMPublic(TPMhmacKeyHandle): a ReadPublic exchange
tcg_tpm_derive_key_FromTPMPublic(t) ==
    /\ backend = "TPM_TCG"
    /\ pc[t] = "locked"
    /\ call[t].op = "derive_key"
    /\ Sends(t, "ReadPublic", tcg_TPMhmacKeyHandle(call[t].key_slot), << >>, 0, "", {})
    /\ GoesOn(t, "xchg", [NoLoc EXCEPT !.at = "FromTPMPublic"], out[t])
    /\ UNCHANGED << backend, workload, life, ctx, mutex, dev, call, ncalls, caller, got, answers, closes, other, prov, tool, gr, dk, zeroSeen >>

\* after Esys_TR_FromTPMPublic: Esys_TRSess_SetAttributes, then Esys_HMAC; both
\* error returns leave the function without pthread_mutex_unlock
tcg_tpm_derive_key_SetAttributes(t) ==
    /\ backend = "TPM_TCG"
    /\ call[t].op = "derive_key"
    /\ loc[t].at = "FromTPMPublic"
    /\ \E r \in DevResponses(wire), ok \in {SetAttributesOk, FALSE} :
          /\ Receives(t, r)
          /\ mutex' = mutex
          /\ IF r.rc # 0
             THEN /\ Returns(t, UTA_TA_ERROR, out[t])
                  /\ wire' = NoCmd
                  /\ ctx' = ctx
             ELSE IF ~ok
             THEN /\ Returns(t, UTA_TA_ERROR, out[t])
                  /\ wire' = NoCmd
                  /\ ctx' = ctx
             ELSE /\ ctx' = [ctx EXCEPT !.attrs = Attrs61]
                  /\ Sends(t, "HMAC", wire.handle, Prefix(call[t].dv, call[t].len_dv), 0,
                           ctx.session, Attrs61)
                  /\ GoesOn(t, "xchg", [loc[t] EXCEPT !.at = "HMAC"], out[t])
    /\ UNCHANGED << backend, workload, life, call, ncalls, caller >>

\* after Esys_HMAC: the error returns (command failed, digest shorter than len_key)
\* keep the lock; otherwise unlock and memcpy(key, outHMAC->buffer, len_key)
tcg_tpm_derive_key_done(t) ==
    /\ backend = "TPM_TCG"
    /\ call[t].op = "derive_key"
    /\ loc[t].at = "HMAC"
    /\ \E r \in DevResponses(wire) :
          /\ Receives(t, r)
          /\ IF r.rc # 0 \/ Len(r.data) < call[t].len_key
             THEN /\ Returns(t, UTA_TA_ERROR, out[t])
                  /\ mutex' = mutex
             ELSE /\ Returns(t, UTA_SUCCESS, memcpy(out[t], r.data, call[t].len_key))
                  /\ mutex' = pthread_mutex_unlock(mutex, t)
    /\ wire' = NoCmd
    /\ UNCHANGED << backend, workload, life, ctx, call, ncalls, caller >>

\* tpm_get_random up to pthread_mutex_lock
tcg_tpm_get_random(t) ==
    /\ backend = "TPM_TCG"
    /\ life = "open"
    /\ \E len_random \in LenRandoms :
          /\ Enters(t, GetRandomCall(len_random))
          /\ GoesOn(t, "lock", NoLoc, FreshBuf)
    /\ UNCHANGED << life, Others >>

\* Esys_TRSess_SetAttributes (its error return keeps the lock), then the loop is
\* entered when bytes are asked for
tcg_tpm_get_random_SetAttributes(t) ==
    /\ backend = "TPM_TCG"
    /\ pc[t] = "locked"
    /\ call[t].op = "get_random"
    /\ \E ok \in {SetAttributesOk, FALSE} :
          IF ~ok
          THEN /\ Returns(t, UTA_TA_ERROR, out[t])
               /\ UNCHANGED << wire, ctx, mutex >>
          ELSE /\ ctx' = [ctx EXCEPT !.attrs = Attrs41]
               /\ IF 0 < call[t].len_random
                  THEN /\ Sends(t, "GetRandom", "", << >>,
                                LeftRequest(call[t].len_random, 0), ctx.session, Attrs41)
                       /\ GoesOn(t, "xchg", [NoLoc EXCEPT !.at = "GetRandom"], out[t])
                       /\ mutex' = mutex
                  ELSE /\ wire' = wire
                       /\ mutex' = pthread_mutex_unlock(mutex, t)
                       /\ Returns(t, UTA_SUCCESS, out[t])
    /\ UNCHANGED << backend, workload, life, dev, call, ncalls, caller, got, answers, closes, other, prov, tool, gr, dk, zeroSeen >>

\* one pass of the loop after Esys_GetRandom returned; the error return keeps the lock
tcg_tpm_get_random_loop(t) ==
    /\ backend = "TPM_TCG"
    /\ call[t].op = "get_random"
    /\ loc[t].at = "GetRandom"
    /\ \E r \in DevResponses(wire) :
          /\ Receives(t, r)
          /\ IF r.rc # 0
             THEN /\ wire' = NoCmd
                  /\ mutex' = mutex
                  /\ Returns(t, UTA_TA_ERROR, out[t])
             ELSE LET c == CopyRandom(out[t], loc[t].bytesCopied, r.data, call[t].len_random)
                  IN IF c.bytesCopied < call[t].len_random
                     THEN /\ Sends(t, "GetRandom", "", << >>,
                                   LeftRequest(call[t].len_random, c.bytesCopied),
                                   ctx.session, ctx.attrs)
                          /\ GoesOn(t, "xchg", [loc[t] EXCEPT !.bytesCopied = c.bytesCopied],
                                    c.buf)
                          /\ mutex' = mutex
                     ELSE /\ wire' = NoCmd
                          /\ mutex' = pthread_mutex_unlock(mutex, t)
                          /\ Returns(t, UTA_SUCCESS, c.buf)
    /\ UNCHANGED << backend, workload, life, ctx, call, ncalls, caller >>

\* tpm_get_device_uuid up to pthread_mutex_lock
tcg_tpm_get_device_uuid(t) ==
    /\ backend = "TPM_TCG"
    /\ life = "open"
    /\ Enters(t, PlainCall("get_device_uuid"))
    /\ GoesOn(t, "lock", NoLoc, FreshBuf)
    /\ UNCHANGED << life, Others >>

\* Esys_CreatePrimary under the endorsement hierarchy, password session
tcg_tpm_get_device_uuid_CreatePrimary(t) ==
    /\ backend = "TPM_TCG"
    /\ pc[t] = "locked"
    /\ call[t].op = "get_device_uuid"
    /\ Sends(t, "CreatePrimary", "", << >>, 0, "", {})
    /\ GoesOn(t, "xchg", [NoLoc EXCEPT !.at = "CreatePrimary"], out[t])
    /\ UNCHANGED << backend, workload, life, ctx, mutex, dev, call, ncalls, caller, got, answers, closes, other, prov, tool, gr, dk, zeroSeen >>

\* after Esys_CreatePrimary: its error return unlocks; then Esys_TR_SetAuth and
\* Esys_TRSess_SetAttributes, whose error returns keep the lock and the key; then
\* Esys_HMAC of "DEVICEID"
tcg_tpm_get_device_uuid_HMAC(t) ==
    /\ backend = "TPM_TCG"
    /\ call[t].op = "get_device_uuid"
    /\ loc[t].at = "CreatePrimary"
    /\ \E r \in DevResponses(wire), ok \in {SetAttributesOk, FALSE} :
          /\ Receives(t, r)
          /\ IF r.rc # 0
             THEN /\ Returns(t, UTA_TA_ERROR, out[t])
                  /\ mutex' = pthread_mutex_unlock(mutex, t)
                  /\ wire' = NoCmd
                  /\ ctx' = ctx
             ELSE IF ~ok
             THEN /\ Returns(t, UTA_TA_ERROR, out[t])
                  /\ mutex' = mutex
                  /\ wire' = NoCmd
                  /\ ctx' = ctx
             ELSE /\ ctx' = [ctx EXCEPT !.attrs = Attrs61]
                  /\ mutex' = mutex
                  /\ Sends(t, "HMAC", UuidKey(r.handle), DEVICEID, 0, ctx.session, Attrs61)
                  /\ GoesOn(t, "xchg", [loc[t] EXCEPT !.at = "HMAC", !.handle = r.handle], out[t])
    /\ UNCHANGED << backend, workload, life, call, ncalls, caller >>

\* after Esys_HMAC: the error returns (command failed, digest shorter than 16) keep
\* the lock and the key; otherwise Esys_FlushContext(primaryHandle)
tcg_tpm_get_device_uuid_FlushContext(t) ==
    /\ backend = "TPM_TCG"
    /\ call[t].op = "get_device_uuid"
    /\ loc[t].at = "HMAC"
    /\ \E r \in DevResponses(wire) :
          /\ Receives(t, r)
          /\ IF r.rc # 0 \/ Len(r.data) < UUID_LEN
             THEN /\ Returns(t, UTA_TA_ERROR, out[t])
                  /\ wire' = NoCmd
             ELSE /\ Sends(t, "FlushContext", loc[t].handle, << >>, 0, "", {})
                  /\ GoesOn(t, "xchg", [loc[t] EXCEPT !.at = "FlushContext", !.buffer = r.data],
                            out[t])
    /\ UNCHANGED << backend, workload, life, ctx, mutex, call, ncalls, caller >>

\* after Esys_FlushContext: its error return keeps the lock; otherwise unlock and
\* the first 16 bytes of outHMAC, formatted
tcg_tpm_get_device_uuid_done(t) ==
    /\ backend = "TPM_TCG"
    /\ call[t].op = "get_device_uuid"
    /\ loc[t].at = "FlushContext"
    /\ \E r \in DevResponses(wire) :
          /\ Receives(t, r)
          /\ IF r.rc # 0
             THEN /\ Returns(t, UTA_TA_ERROR, out[t])
                  /\ mutex' = mutex
             ELSE /\ Returns(t, UTA_SUCCESS, FormatUuid(memcpy(out[t], loc[t].buffer, UUID_LEN)))
                  /\ mutex' = pthread_mutex_unlock(mutex, t)
    /\ wire' = NoCmd
    /\ UNCHANGED << backend, workload, life, ctx, call, ncalls, caller >>

\* tpm_self_test up to pthread_mutex_lock
tcg_tpm_self_test(t) ==
    /\ backend = "TPM_TCG"
    /\ life = "open"
    /\ Enters(t, PlainCall("self_test"))
    /\ GoesOn(t, "lock", NoLoc, FreshBuf)
    /\ UNCHANGED << life, Others >>

\* Esys_SelfTest
tcg_tpm_self_test_SelfTest(t) ==
    /\ backend = "TPM_TCG"
    /\ pc[t] = "locked"
    /\ call[t].op = "self_test"
    /\ Sends(t, "SelfTest", "", << >>, 0, "", {})
    /\ GoesOn(t, "xchg", [NoLoc EXCEPT !.at = "SelfTest"], out[t])
    /\ UNCHANGED << backend, workload, life, ctx, mutex, dev, call, ncalls, caller, got, answers, closes, other, prov, tool, gr, dk, zeroSeen >>

\* after Esys_SelfTest: unlock and UTA_TA_ERROR, or Esys_GetTestResult
tcg_tpm_self_test_GetTestResult(t) ==
    /\ backend = "TPM_TCG"
    /\ call[t].op = "self_test"
    /\ loc[t].at = "SelfTest"
    /\ \E r \in DevResponses(wire) :
          /\ Receives(t, r)
          /\ IF r.rc # 0
             THEN /\ wire' = NoCmd
                  /\ mutex' = pthread_mutex_unlock(mutex, t)
                  /\ Returns(t, UTA_TA_ERROR, out[t])
             ELSE /\ Sends(t, "GetTestResult", "", << >>, 0, "", {})
                  /\ mutex' = mutex
                  /\ GoesOn(t, "xchg", [loc[t] EXCEPT !.at = "GetTestResult"], out[t])
    /\ UNCHANGED << backend, workload, life, ctx, call, ncalls, caller >>

\* after Esys_GetTestResult: its error return keeps the lock; otherwise unlock and
\* the check of testResult
tcg_tpm_self_test_done(t) ==
    /\ backend = "TPM_TCG"
    /\ call[t].op = "self_test"
    /\ loc[t].at = "GetTestResult"
    /\ \E r \in DevResponses(wire) :
          /\ Receives(t, r)
          /\ IF r.rc # 0
             THEN /\ mutex' = mutex
                  /\ Returns(t, UTA_TA_ERROR, out[t])
             ELSE /\ mutex' = pthread_mutex_unlock(mutex, t)
                  /\ IF r.test # 0
                     THEN Returns(t, UTA_TA_ERROR, out[t])
                     ELSE Returns(t, UTA_SUCCESS, out[t])
    /\ wire' = NoCmd
    /\ UNCHANGED << backend, workload, life, ctx, call, ncalls, caller >>

\* tpm_open up to Esys_TR_FromTPMPublic: pthread_mutex_init, pthread_mutex_lock, the
\* size query of Tss2_Tcti_Device_Init, calloc, the second Tss2_Tcti_Device_Init and
\* Esys_Initialize can each fail; after the lock is taken no error return releases
\* it or frees what was allocated
tcg_tpm_open(t) ==
    /\ backend = "TPM_TCG"
    /\ life = "closed"
    /\ \A u \in Threads : Ready(u)
    /\ Enters(t, PlainCall("open"))
    /\ \E failed \in {"pthread_mutex_init", "pthread_mutex_lock", "calloc",
                      "Tss2_Tcti_Device_Init", "Esys_Initialize", "none"} :
          IF failed = "pthread_mutex_init"
          THEN /\ Returns(t, UTA_TA_ERROR, FreshBuf)
               /\ UNCHANGED << mutex, ctx, wire >>
          ELSE IF failed = "pthread_mutex_lock"
          THEN /\ mutex' = pthread_mutex_init
               /\ Returns(t, UTA_TA_ERROR, FreshBuf)
               /\ UNCHANGED << ctx, wire >>
          ELSE IF failed = "calloc"
          THEN /\ mutex' = [pthread_mutex_init EXCEPT !.owner = t]
               /\ ctx' = [ctx EXCEPT !.tss = "none"]
               /\ Returns(t, UTA_TA_ERROR, FreshBuf)
               /\ wire' = wire
          ELSE IF failed \in {"Tss2_Tcti_Device_Init", "Esys_Initialize"}
          THEN /\ mutex' = [pthread_mutex_init EXCEPT !.owner = t]
               /\ ctx' = [ctx EXCEPT !.tss = "tcti"]
               /\ Returns(t, UTA_TA_ERROR, FreshBuf)
               /\ wire' = wire
          ELSE /\ mutex' = [pthread_mutex_init EXCEPT !.owner = t]
               /\ ctx' = [ctx EXCEPT !.tss = "up"]
               /\ Sends(t, "ReadPublic", TPM_SALT_HANDLE, << >>, 0, "", {})
               /\ GoesOn(t, "xchg", [NoLoc EXCEPT !.at = "FromTPMPublic"], FreshBuf)
    /\ UNCHANGED << backend, workload, life, dev, closes, other, prov, tool, gr, dk, zeroSeen >>

\* after Esys_TR_FromTPMPublic: UTA_TA_ERROR with the lock held, or
\* Esys_StartAuthSession
tcg_tpm_open_StartAuthSession(t) ==
    /\ backend = "TPM_TCG"
    /\ call[t].op = "open"
    /\ loc[t].at = "FromTPMPublic"
    /\ \E r \in DevResponses(wire) :
          /\ Receives(t, r)
          /\ IF r.rc # 0
             THEN /\ Returns(t, UTA_TA_ERROR, out[t])
                  /\ wire' = NoCmd
             ELSE /\ Sends(t, "StartAuthSession", wire.handle, << >>, 0, "", HmacSessionDef)
                  /\ GoesOn(t, "xchg", [loc[t] EXCEPT !.at = "StartAuthSession"], out[t])
    /\ UNCHANGED << backend, workload, life, ctx, mutex, call, ncalls, caller >>

\* after Esys_StartAuthSession: UTA_TA_ERROR with the lock held, or the session is
\* stored and the lock released
tcg_tpm_open_done(t) ==
    /\ backend = "TPM_TCG"
    /\ call[t].op = "open"
    /\ loc[t].at = "StartAuthSession"
    /\ \E r \in DevResponses(wire) :
          /\ Receives(t, r)
          /\ IF r.rc # 0
             THEN /\ UNCHANGED << ctx, mutex, life >>
                  /\ Returns(t, UTA_TA_ERROR, out[t])
             ELSE /\ ctx' = [ctx EXCEPT !.session = r.handle]
                  /\ mutex' = pthread_mutex_unlock(mutex, t)
                  /\ life' = "open"
                  /\ Returns(t, UTA_SUCCESS, out[t])
    /\ wire' = NoCmd
    /\ UNCHANGED << backend, workload, call, ncalls, caller >>

\* tpm_close up to pthread_mutex_lock; the callers make no further call on the
\* context once one of them has called close
tcg_tpm_close(t) ==
    /\ backend = "TPM_TCG"
    /\ life = "open"
    /\ Enters(t, PlainCall("close"))
    /\ GoesOn(t, "lock", NoLoc, FreshBuf)
    /\ life' = "closing"
    /\ UNCHANGED Others

\* tpm_close with the lock: Esys_FlushContext(session)
tcg_tpm_close_FlushContext(t) ==
    /\ backend = "TPM_TCG"
    /\ pc[t] = "locked"
    /\ call[t].op = "close"
    /\ Sends(t, "FlushContext", ctx.session, << >>, 0, "", {})
    /\ GoesOn(t, "xchg", [NoLoc EXCEPT !.at = "FlushContext"], out[t])
    /\ UNCHANGED << backend, workload, life, ctx, mutex, dev, call, ncalls, caller, got, answers, closes, other, prov, tool, gr, dk, zeroSeen >>

\* after Esys_FlushContext (result ignored): Esys_Finalize, Tss2_Tcti_Finalize, free,
\* unlock
tcg_tpm_close_Finalize(t) ==
    /\ backend = "TPM_TCG"
    /\ call[t].op = "close"
    /\ loc[t].at = "FlushContext"
    /\ \E r \in DevResponses(wire) : Receives(t, r)
    /\ ctx' = [ctx EXCEPT !.tss = "none"]
    /\ mutex' = pthread_mutex_unlock(mutex, t)
    /\ GoesOn(t, "destroy", NoLoc, out[t])
    /\ wire' = NoCmd
    /\ UNCHANGED << backend, workload, life, call, ncalls, caller >>

\* pthread_mutex_destroy (result ignored) and return
tcg_tpm_close_destroy(t) ==
    /\ backend = "TPM_TCG"
    /\ pc[t] = "destroy"
    /\ mutex' \in pthread_mutex_destroy(mutex)
    /\ life' = "closed"
    /\ closes' = closes + 1
    /\ Returns(t, UTA_SUCCESS, out[t])
    /\ UNCHANGED << backend, workload, ctx, wire, dev, call, ncalls, caller, got, answers, other, prov, tool, gr, dk, zeroSeen >>

(* -------------- provisioning (provisioning/tpm_ibm/provisioning.sh) ----- *)
\* A handle as the tools print and read it: eight hexadecimal characters.
Hex8(a, b, n) == << a, b, "0", "0", "0", "0", "0", n >>

\* the key slots of the script
HMAC_KEY0 == Hex8("8", "1", "0")
HMAC_KEY1 == Hex8("8", "1", "1")
ECC == Hex8("8", "1", "2")

PersistentSlots == {HMAC_KEY0, HMAC_KEY1, ECC}
TransientSlots == {Hex8("8", "0", n) : n \in {"0", "1", "2"}}
SessionSlots == {Hex8("0", "3", n) : n \in {"0", "1"}}

\* what a tool that creates or loads something prints
HandleLine(h) == << "H", "a", "n", "d", "l", "e", " " >> \o h

DecimalDigits == {"0", "1", "2", "3", "4", "5", "6", "7", "8", "9"}
IsDecimalDigit(c) == c \in DecimalDigits

\* tr -cd '[[:digit:]]' : delete every character that is not a decimal digit
tr_cd_digit(s) == SelectSeq(s, IsDecimalDigit)

RECURSIVE JoinChars(_)
JoinChars(s) == IF s = << >> THEN "" ELSE Head(s) \o JoinChars(Tail(s))

\* the handle as configure.ac writes the library's default
ConfiguredHandle(h) == "0x" \o JoinChars(h)

\* one command of the script: the tool, its handle arguments (names of shell
\* variables), the variable that receives the printed handle, the object or
\* key file it is about, and whether by_error_print follows it
Command(cmd, ho, hp, se, to, obj, checked) ==
    [cmd |-> cmd, ho |-> ho, hp |-> hp, se |-> se, to |-> to, obj |-> obj, checked |-> checked]

ScriptHead ==
    << Command("tssgetrandom", "", "", "", "", "", FALSE),
       Command("tssevictcontrol", "HMAC_KEY0", "HMAC_KEY0", "", "", "", FALSE),
       Command("tssevictcontrol", "HMAC_KEY1", "HMAC_KEY1", "", "", "", FALSE),
       Command("tssevictcontrol", "ECC", "ECC", "", "", "", FALSE),
       Command("tsscreateprimary", "", "", "", "STORAGE_PKEY_HANDLE", "storage", TRUE),
       Command("tsscreate", "", "STORAGE_PKEY_HANDLE", "", "", "salt", TRUE),
       Command("tssload", "", "STORAGE_PKEY_HANDLE", "", "GENERAL_KEY_HANDLE", "ecc", TRUE),
       Command("tssevictcontrol", "GENERAL_KEY_HANDLE", "ECC", "", "", "", TRUE),
       Command("tssflushcontext", "GENERAL_KEY_HANDLE", "", "", "", "", TRUE) >>

KeyFiles == {"file1", "file2"}

\* the key of slot `slot` is built from the key file n
KeyFromFile(n, slot) ==
    << Command("test_s", "", "", "", "", n, TRUE),
       Command("tssgetrandom", "", "", "", "", "", TRUE),
       Command("uta_custom_hmac_key", "", "", "", "", n, TRUE),
       Command("tssstartauthsession", "", "", "", "POLICY_HANDLE", "", TRUE),
       Command("tsspolicycommandcode", "POLICY_HANDLE", "", "", "", "", TRUE),
       Command("tssgetrandom", "", "", "", "", "", TRUE),
       Command("tssduplicate", "GENERAL_KEY_HANDLE", "STORAGE_PKEY_HANDLE", "POLICY_HANDLE", "", "", TRUE),
       Command("tssflushcontext", "GENERAL_KEY_HANDLE", "", "", "", "", TRUE),
       Command("tssimport", "", "STORAGE_PKEY_HANDLE", "", "", "", TRUE),
       Command("tssload", "", "STORAGE_PKEY_HANDLE", "", "GENERAL_KEY_HANDLE", "hmac", TRUE),
       Command("tssevictcontrol", "GENERAL_KEY_HANDLE", slot, "", "", "", TRUE),
       Command("tssflushcontext", "GENERAL_KEY_HANDLE", "", "", "", "", TRUE),
       Command("tssflushcontext", "POLICY_HANDLE", "", "", "", "", TRUE) >>

\* the TPM generates the key of slot `slot` by itself
KeyByTpm(slot) ==
    << Command("tsscreate", "", "STORAGE_PKEY_HANDLE", "", "", "hmac_random", TRUE),
       Command("tssload", "", "STORAGE_PKEY_HANDLE", "", "HMAC_KEY_HANDLE", "hmac", TRUE),
       Command("tssevictcontrol", "HMAC_KEY_HANDLE", slot, "", "", "", TRUE),
       Command("tssflushcontext", "HMAC_KEY_HANDLE", "", "", "", "", TRUE) >>

ScriptTailKeepsStorageKey == << >>

ScriptTail == << Command("tssflushcontext", "STORAGE_PKEY_HANDLE", "", "", "", "", TRUE) >>

\* the commands a run with `args` key files goes through
Script(args) ==
    ScriptHead
    \o (IF args > 0 THEN KeyFromFile("file1", "HMAC_KEY0") ELSE KeyByTpm("HMAC_KEY0"))
    \o (IF args = 2 THEN KeyFromFile("file2", "HMAC_KEY1") ELSE KeyByTpm("HMAC_KEY1"))
    \o ScriptTail

NoHandle == << >>

ShellVariables == {"HMAC_KEY0", "HMAC_KEY1", "ECC", "STORAGE_PKEY_HANDLE", "GENERAL_KEY_HANDLE",
                   "HMAC_KEY_HANDLE", "POLICY_HANDLE"}

ShellAtStart ==
    [v \in ShellVariables |->
        IF v = "HMAC_KEY0" THEN HMAC_KEY0
        ELSE IF v = "HMAC_KEY1" THEN HMAC_KEY1
        ELSE IF v = "ECC" THEN ECC
        ELSE NoHandle]

NoFiles == [ecc |-> "none", pub |-> "none", priv |-> "none", dup |-> "none"]

\* no provisioning run is going on
ProvIdle ==
    [status |-> "idle", pc |-> 1, args |-> 0, nonempty |-> {},
     persistent |-> [h \in PersistentSlots |-> "free"],
     objs |-> [h \in TransientSlots |-> "free"],
     sessions |-> [h \in SessionSlots |-> "free"],
     env |-> ShellAtStart, files |-> NoFiles]

\* a run starts with 0, 1 or 2 key files (each empty or not), on a TPM whose
\* slots may hold keys of an earlier provisioning and that may have one object
\* of another user loaded
ProvStarts ==
    { [ProvIdle EXCEPT !.status = "run", !.args = a, !.nonempty = ne, !.persistent = p, !.objs = o] :
        a \in 0 .. 2, ne \in SUBSET KeyFiles,
        p \in [PersistentSlots -> {"free", "old"}],
        o \in {ob \in [TransientSlots -> {"free", "foreign"}] :
                  Cardinality({h \in TransientSlots : ob[h] = "foreign"}) <= 1} }

\* the command the script is at
Current == Script(prov.args)[prov.pc]

At(cmd) == prov.status = "run" /\ Current.cmd = cmd

\* the script goes on with its next line, or has reached its end
Advance(p) ==
    [p EXCEPT !.pc = @ + 1,
              !.status = IF p.pc + 1 > Len(Script(p.args)) THEN "done" ELSE "run"]

\* by_error_print: exit 1 after a command that failed; a command that is not
\* followed by it is just passed
Failed(p) == IF Current.checked THEN [p EXCEPT !.status = "failed"] ELSE Advance(p)

Loaded(p, h) == h \in TransientSlots /\ p.objs[h] # "free"
IsStorageKey(p, h) == h \in TransientSlots /\ p.objs[h] = "storage"

\* FUNC_OUTPUT=$(tool ...); VAR=$(echo $FUNC_OUTPUT | tr -cd '[[:digit:]]')
Capture(p, var, h) == [p EXCEPT !.env[var] = tr_cd_digit(HandleLine(h))]

tssgetrandom ==
    /\ At("tssgetrandom")
    /\ UNCHANGED << libvars, tool, gr, dk >>
    /\ \E ok \in BOOLEAN : prov' = IF ok THEN Advance(prov) ELSE Failed(prov)

\* -ho = -hp: the persistent object is removed; -ho a loaded object: it is
\* made persistent at -hp, which must be free
tssevictcontrol ==
    /\ At("tssevictcontrol")
    /\ UNCHANGED << libvars, tool, gr, dk >>
    /\ LET ho == prov.env[Current.ho]
           hp == prov.env[Current.hp]
       IN \E ok \in BOOLEAN :
            prov' = IF ok /\ ho = hp /\ prov.persistent[hp] # "free"
                        THEN Advance([prov EXCEPT !.persistent[hp] = "free"])
                    ELSE IF ok /\ Loaded(prov, ho) /\ prov.persistent[hp] = "free"
                        THEN Advance([prov EXCEPT !.persistent[hp] = prov.objs[ho]])
                    ELSE Failed(prov)

tsscreateprimary ==
    /\ At("tsscreateprimary")
    /\ UNCHANGED << libvars, tool, gr, dk >>
    /\ \/ \E h \in TransientSlots :
            /\ prov.objs[h] = "free"
            /\ prov' = Advance(Capture([prov EXCEPT !.objs[h] = "storage"], Current.to, h))
       \/ prov' = Failed(prov)

\* writes the key's public and private part to files
tsscreate ==
    /\ At("tsscreate")
    /\ UNCHANGED << libvars, tool, gr, dk >>
    /\ \E ok \in BOOLEAN :
         prov' = IF ok /\ IsStorageKey(prov, prov.env[Current.hp])
                     THEN IF Current.obj = "salt"
                              THEN Advance([prov EXCEPT !.files.ecc = "salt"])
                              ELSE Advance([prov EXCEPT !.files.pub = Current.obj,
                                                        !.files.priv = Current.obj])
                 ELSE Failed(prov)

\* the key the files to load hold: the public and the private part must belong together
KeyInFiles(p, obj) ==
    IF obj = "ecc" THEN p.files.ecc
    ELSE IF p.files.pub = p.files.priv THEN p.files.pub
    ELSE "none"

tssload ==
    /\ At("tssload")
    /\ UNCHANGED << libvars, tool, gr, dk >>
    /\ \/ \E h \in TransientSlots :
            /\ prov.objs[h] = "free"
            /\ IsStorageKey(prov, prov.env[Current.hp])
            /\ KeyInFiles(prov, Current.obj) # "none"
            /\ prov' = Advance(Capture([prov EXCEPT !.objs[h] = KeyInFiles(prov, Current.obj)],
                                       Current.to, h))
       \/ prov' = Failed(prov)

tssflushcontext ==
    /\ At("tssflushcontext")
    /\ UNCHANGED << libvars, tool, gr, dk >>
    /\ LET ha == prov.env[Current.ho]
       IN \E ok \in BOOLEAN :
            prov' = IF ok /\ Loaded(prov, ha)
                        THEN Advance([prov EXCEPT !.objs[ha] = "free"])
                    ELSE IF ok /\ ha \in SessionSlots /\ prov.sessions[ha] # "free"
                        THEN Advance([prov EXCEPT !.sessions[ha] = "free"])
                    ELSE Failed(prov)

\* if [ -s "$n" ] ... else exit 1
test_s ==
    /\ At("test_s")
    /\ UNCHANGED << libvars, tool, gr, dk >>
    /\ prov' = IF Current.obj \in prov.nonempty THEN Advance(prov)
               ELSE [prov EXCEPT !.status = "failed"]

\* loads the key of the file into the TPM as a transient object the storage
\* key can take over, and writes its public part to hmac_key_pub.bin; the
\* handle it gets is not read by the script
uta_custom_hmac_key ==
    /\ At("uta_custom_hmac_key")
    /\ UNCHANGED << libvars, tool, gr, dk >>
    /\ \/ \E h \in TransientSlots :
            /\ prov.objs[h] = "free"
            /\ prov' = Advance([prov EXCEPT !.objs[h] = "hmac_" \o Current.obj,
                                            !.files.pub = "hmac_" \o Current.obj])
       \/ prov' = Failed(prov)

tssstartauthsession ==
    /\ At("tssstartauthsession")
    /\ UNCHANGED << libvars, tool, gr, dk >>
    /\ \/ \E h \in SessionSlots :
            /\ prov.sessions[h] = "free"
            /\ prov' = Advance(Capture([prov EXCEPT !.sessions[h] = "policy"], Current.to, h))
       \/ prov' = Failed(prov)

\* -cc 14b: the session authorises TPM2_Duplicate only
tsspolicycommandcode ==
    /\ At("tsspolicycommandcode")
    /\ UNCHANGED << libvars, tool, gr, dk >>
    /\ LET ha == prov.env[Current.ho]
       IN \E ok \in BOOLEAN :
            prov' = IF ok /\ ha \in SessionSlots /\ prov.sessions[ha] = "policy"
                        THEN Advance([prov EXCEPT !.sessions[ha] = "policy_duplicate"])
                    ELSE Failed(prov)

\* keys created with -kt f -kt p are fixed to the TPM and their parent
Duplicable(kind) == kind \in {"hmac_" \o n : n \in KeyFiles}

tssduplicate ==
    /\ At("tssduplicate")
    /\ UNCHANGED << libvars, tool, gr, dk >>
    /\ LET ho == prov.env[Current.ho]
           hp == prov.env[Current.hp]
           se == prov.env[Current.se]
       IN \E ok \in BOOLEAN :
            prov' = IF /\ ok
                       /\ Loaded(prov, ho) /\ Duplicable(prov.objs[ho])
                       /\ IsStorageKey(prov, hp)
                       /\ se \in SessionSlots /\ prov.sessions[se] = "policy_duplicate"
                        THEN Advance([prov EXCEPT !.files.dup = prov.objs[ho]])
                    ELSE Failed(prov)

\* the duplicate and the public part must belong together
tssimport ==
    /\ At("tssimport")
    /\ UNCHANGED << libvars, tool, gr, dk >>
    /\ \E ok \in BOOLEAN :
         prov' = IF /\ ok
                    /\ IsStorageKey(prov, prov.env[Current.hp])
                    /\ prov.files.dup # "none" /\ prov.files.dup = prov.files.pub
                     THEN Advance([prov EXCEPT !.files.priv = prov.files.dup])
                 ELSE Failed(prov)

ProvStep ==
    \/ tssgetrandom
    \/ tssevictcontrol
    \/ tsscreateprimary
    \/ tsscreate
    \/ tssload
    \/ tssflushcontext
    \/ test_s
    \/ uta_custom_hmac_key
    \/ tssstartauthsession
    \/ tsspolicycommandcode
    \/ tssduplicate
    \/ tssimport

(* ------ derive_key of the hardware implementations, side by side -------- *)
\* the hardware implementations of derive_key in the repository: uta.c (IBM
\* stack), tpm_tcg.c (TCG stack) and the TCG-stack source without a lock
Implementations == {"uta.c", "tpm_tcg.c", "lock-free tpm_tcg.c"}

ESYS_TR_NONE == "ESYS_TR_NONE"

\* the switch of the lock-free source: TPMhmacKeyHandle and hmacKeyHandle start as
\* ESYS_TR_NONE, and the cases assign the slot's handle to hmacKeyHandle
lockfree_switch(key_slot) ==
    [TPMhmacKeyHandle |-> ESYS_TR_NONE,
     hmacKeyHandle |-> IF key_slot = 0 THEN TPM_KEY0_HANDLE
                       ELSE IF key_slot = 1 THEN TPM_KEY1_HANDLE
                       ELSE ESYS_TR_NONE,
     unknown_slot |-> key_slot \notin {0, 1}]

\* the argument checks of the lock-free tpm_derive_key, in the order of the code
lockfree_derive_key_check(key_slot, len_dv, len_key) ==
    IF key_slot > USED_KEY_SLOTS - 1 THEN UTA_INVALID_KEY_SLOT
    ELSE IF lockfree_switch(key_slot).unknown_slot THEN UTA_INVALID_KEY_SLOT
    ELSE IF len_dv # 8 THEN UTA_INVALID_DV_LENGTH
    ELSE IF len_key > 32 THEN UTA_INVALID_KEY_LENGTH
    ELSE UTA_SUCCESS

\* the code the argument checks of an implementation give
dk_check(impl, key_slot, len_dv, len_key) ==
    IF impl = "uta.c" THEN ibm_derive_key_check(key_slot, len_dv, len_key)
    ELSE IF impl = "tpm_tcg.c" THEN tcg_derive_key_check(key_slot, len_dv, len_key)
    ELSE lockfree_derive_key_check(key_slot, len_dv, len_key)

\* the first command of derive_key with the handle it names: TPM2_HMAC in
\* uta.c, the TPM2_ReadPublic of Esys_TR_FromTPMPublic in the TCG sources
dk_first_command(impl, c) ==
    IF impl = "uta.c"
    THEN [NoCmd EXCEPT !.cc = "HMAC", !.handle = ibm_hmacKeyHandle(c.key_slot),
                       !.buffer = Prefix(c.dv, DERIV_STR_LEN),
                       !.session = ctx.session, !.attrs = Attrs61]
    ELSE IF impl = "tpm_tcg.c"
    THEN [NoCmd EXCEPT !.cc = "ReadPublic", !.handle = tcg_TPMhmacKeyHandle(c.key_slot)]
    ELSE [NoCmd EXCEPT !.cc = "ReadPublic",
                       !.handle = lockfree_switch(c.key_slot).TPMhmacKeyHandle]

\* no derive_key call is followed
DkIdle == [impl |-> "none", pc |-> "idle", call |-> NoCall, cmd |-> NoCmd,
           rc |-> UTA_SUCCESS, key |-> FreshBuf]

\* derive_key is called: the argument checks, then the first command
dk_tpm_derive_key ==
    /\ dk.pc \in {"idle", "returned"}
    /\ \E impl \in Implementations, key_slot \in KeySlots("sequential"),
          len_dv \in LenDvs("sequential"), len_key \in LenKeys("sequential"),
          s \in DerivStrings("sequential") :
          LET c == DeriveKeyCall(key_slot, len_dv, len_key, s)
              code == dk_check(impl, key_slot, len_dv, len_key)
          IN dk' = IF code # UTA_SUCCESS
                   THEN [DkIdle EXCEPT !.impl = impl, !.call = c, !.pc = "returned", !.rc = code]
                   ELSE [DkIdle EXCEPT !.impl = impl, !.call = c, !.pc = "xchg",
                                       !.cmd = dk_first_command(impl, c)]
    /\ UNCHANGED << libvars, prov, tool, gr >>

\* Esys_TR_FromTPMPublic returned: UTA_TA_ERROR, or Esys_TRSess_SetAttributes
\* and Esys_HMAC with the object of the handle that was looked up
dk_tpm_derive_key_HMAC ==
    /\ dk.pc = "xchg"
    /\ dk.cmd.cc = "ReadPublic"
    /\ \E r \in DevResponses(dk.cmd), ok \in {SetAttributesOk, FALSE} :
          dk' = IF r.rc # 0 \/ ~ok
                THEN [dk EXCEPT !.pc = "returned", !.rc = UTA_TA_ERROR, !.cmd = NoCmd]
                ELSE [dk EXCEPT !.cmd = [NoCmd EXCEPT !.cc = "HMAC", !.handle = dk.cmd.handle,
                                                      !.buffer = Prefix(dk.call.dv, dk.call.len_dv),
                                                      !.session = ctx.session, !.attrs = Attrs61]]
    /\ UNCHANGED << libvars, prov, tool, gr >>

\* the HMAC command returned: UTA_TA_ERROR, or len_key bytes are copied to key
\* (uta.c copies them from its stack buffer whatever the digest's size)
dk_tpm_derive_key_done ==
    /\ dk.pc = "xchg"
    /\ dk.cmd.cc = "HMAC"
    /\ \E r \in DevResponses(dk.cmd), g \in StackBytes :
          dk' = IF r.rc # 0 \/ (dk.impl # "uta.c" /\ Len(r.data) < dk.call.len_key)
                THEN [dk EXCEPT !.pc = "returned", !.rc = UTA_TA_ERROR, !.cmd = NoCmd]
                ELSE [dk EXCEPT !.pc = "returned", !.rc = UTA_SUCCESS, !.cmd = NoCmd,
                                !.key = memcpy(FreshBuf, ibm_hmac_buffer(r, g), dk.call.len_key)]
    /\ UNCHANGED << libvars, prov, tool, gr >>

DkNext ==
    \/ dk_tpm_derive_key
    \/ dk_tpm_derive_key_HMAC
    \/ dk_tpm_derive_key_done

(* ------------- get_random with the widths of its counters -------------- *)
\* The widths of the C types, all scaled down by the same measure so that the
\* values are small: size_t (64 bits) has SIZE_BITS bits, uint32_t has UINT32_BITS
\* bits, int has INT_BITS bits, one of them the sign.
SIZE_BITS == 6
UINT32_BITS == 4
INT_BITS == 4
SIZE_MAX == 2 ^ SIZE_BITS - 1
UINT32_MOD == 2 ^ UINT32_BITS
INT_MAX == 2 ^ (INT_BITS - 1) - 1
\* the most bytes the device delivers in one response
MaxResponse == 3

\* the conversion of a size_t value to uint32_t
uint32_t(x) == x % UINT32_MOD

\* the conversion of an int value to size_t, for the comparison i < len_random
size_t(i) == IF i < 0 THEN i + 2 ^ SIZE_BITS ELSE i

\* no get_random call is followed; written is the number of bytes of the caller's
\* buffer that were written (the writes start at index 0 and leave no gap)
GrIdle == [impl |-> "none", pc |-> "idle", len_random |-> 0, bytesRequested |-> 0,
           bytesCopied |-> 0, i |-> 0, request |-> 0, written |-> 0, rc |-> UTA_SUCCESS]

\* get_random is called with a length of the whole range of size_t: the
\* declarations of the counters (uint32_t bytesRequested = len_random in uta.c)
gr_get_random ==
    /\ gr.pc \in {"idle", "returned", "undefined"}
    /\ \E impl \in {"UTA_SIM", "TPM_IBM", "TPM_TCG"}, len_random \in 0..SIZE_MAX :
          gr' = [GrIdle EXCEPT !.impl = impl, !.pc = "loop", !.len_random = len_random,
                               !.bytesRequested = uint32_t(len_random)]
    /\ UNCHANGED << libvars, prov, tool, dk >>

\* sim_get_random: one pass of for(int i=0; i<len_random; i++), the comparison made
\* in size_t.  i++ at INT_MAX is a signed overflow, which is undefined: the index
\* wraps to INT_MIN, or the loop goes on with a wide index, or the call ends
\* abnormally.  A write at a negative index ends the call abnormally.
gr_sim_get_random ==
    /\ gr.impl = "UTA_SIM"
    /\ gr.pc = "loop"
    /\ IF size_t(gr.i) < gr.len_random
       THEN IF gr.i < 0
            THEN gr' = [gr EXCEPT !.pc = "undefined"]
            ELSE \E outcome \in {"wraps", "wide", "abnormal end"} :
                    LET w == IF gr.i + 1 > gr.written THEN gr.i + 1 ELSE gr.written
                    IN gr' = IF gr.i # INT_MAX \/ outcome = "wide"
                             THEN [gr EXCEPT !.i = gr.i + 1, !.written = w]
                             ELSE IF outcome = "wraps"
                             THEN [gr EXCEPT !.i = 0 - INT_MAX - 1, !.written = w]
                             ELSE [gr EXCEPT !.pc = "undefined", !.written = w]
       ELSE gr' = [gr EXCEPT !.pc = "returned", !.rc = UTA_SUCCESS]
    /\ UNCHANGED << libvars, prov, tool, dk >>

\* tpm_get_rand of uta.c: the loop condition bytesCopied < bytesRequested, both
\* uint32_t, and the request for whatever is left
gr_ibm_tpm_get_rand ==
    /\ gr.impl = "TPM_IBM"
    /\ gr.pc = "loop"
    /\ gr' = IF gr.bytesCopied < gr.bytesRequested
             THEN [gr EXCEPT !.pc = "xchg", !.request = gr.bytesRequested - gr.bytesCopied]
             ELSE [gr EXCEPT !.pc = "returned", !.rc = UTA_SUCCESS]
    /\ UNCHANGED << libvars, prov, tool, dk >>

\* tpm_get_random of tpm_tcg.c: the loop condition bytesCopied < len_random, made
\* in size_t, and uint32_t bytesRequested = len_random - bytesCopied
gr_tcg_tpm_get_random ==
    /\ gr.impl = "TPM_TCG"
    /\ gr.pc = "loop"
    /\ gr' = IF gr.bytesCopied < gr.len_random
             THEN [gr EXCEPT !.pc = "xchg",
                             !.bytesRequested = uint32_t(gr.len_random - gr.bytesCopied),
                             !.request = uint32_t(gr.len_random - gr.bytesCopied)]
             ELSE [gr EXCEPT !.pc = "returned", !.rc = UTA_SUCCESS]
    /\ UNCHANGED << libvars, prov, tool, dk >>

\* the copy loop over a response of n bytes: random[bytesCopied] is written and
\* the uint32_t bytesCopied incremented while it is below limit
RECURSIVE gr_copy(_, _, _, _)
gr_copy(n, bytesCopied, written, limit) ==
    IF n = 0 \/ ~(bytesCopied < limit)
    THEN [bytesCopied |-> bytesCopied, written |-> written]
    ELSE gr_copy(n - 1, uint32_t(bytesCopied + 1),
                 IF bytesCopied + 1 > written THEN bytesCopied + 1 ELSE written, limit)

\* the exchange returned: a failure ends the call with UTA_TA_ERROR, a response
\* of up to request bytes is copied and the loop goes on
gr_response ==
    /\ gr.pc = "xchg"
    /\ \/ gr' = [gr EXCEPT !.pc = "returned", !.rc = UTA_TA_ERROR]
       \/ \E n \in 0..MaxResponse :
             /\ n <= gr.request
             /\ LET c == gr_copy(n, gr.bytesCopied, gr.written,
                                 IF gr.impl = "TPM_IBM" THEN gr.bytesRequested
                                 ELSE gr.len_random)
                IN gr' = [gr EXCEPT !.pc = "loop", !.bytesCopied = c.bytesCopied,
                                    !.written = c.written]
    /\ UNCHANGED << libvars, prov, tool, dk >>

WidthNext ==
    \/ gr_get_random
    \/ gr_sim_get_random
    \/ gr_ibm_tpm_get_rand
    \/ gr_tcg_tpm_get_random
    \/ gr_response

(* ---------------------- the tool uta_get_passphrase -------------------- *)
UTA_LEN_DV_V1 == 8
TA_KEY_BYTES == 32
\* an option that is not on the command line
NoArg == << 0 - 1 >>
\* "default!", "base64", "hex", "0", "1" as character codes
default_dv == << 100, 101, 102, 97, 117, 108, 116, 33 >>
base64_str == << 98, 97, 115, 101, 54, 52 >>
hex_str == << 104, 101, 120 >>
\* the arguments of -d on the command lines: "", "ab", "ab======", "default",
\* "default!", "default!!" and "passphrase"
DArgs == { << >>, << 97, 98 >>, << 97, 98, 61, 61, 61, 61, 61, 61 >>,
           << 100, 101, 102, 97, 117, 108, 116 >>, default_dv,
           << 100, 101, 102, 97, 117, 108, 116, 33, 33 >>,
           << 112, 97, 115, 115, 112, 104, 114, 97, 115, 101 >> }
\* the arguments of -e: "base64", "hex", "bin"
EArgs == { base64_str, hex_str, << 98, 105, 110 >> }
\* the arguments of -k: "0", "1", "2"
KArgs == { << 48 >>, << 49 >>, << 50 >> }
CommandLines ==
    [d : DArgs \cup {NoArg}, e : EArgs \cup {NoArg}, k : KArgs \cup {NoArg}, h : BOOLEAN]

\* the character of C string s at index i (0-based): 0 at the terminator and,
\* for the comparison functions that stop there, after it
CharAt(s, i) == IF i < Len(s) THEN s[i + 1] ELSE 0

\* strncmp(s, lit, n) == 0
strncmp0(s, lit, n) == \A i \in 0..(n - 1) : CharAt(s, i) = CharAt(lit, i)

\* strnlen(s, maxlen)
strnlen(s, maxlen) == Min(Len(s), maxlen)

\* variant: the derivation string cut to 8 bytes and padded with zero bytes
dv_padded_with_zero(derivation_string) ==
    [i \in 1..UTA_LEN_DV_V1 |-> CharAt(derivation_string, i - 1)]

\* the loop of get_passphrase_from_ta: the first 8 bytes of the string, '=' from
\* its terminator on
dv_padded(derivation_string) ==
    [i \in 1..UTA_LEN_DV_V1 |->
        IF \E j \in 0..(i - 1) : CharAt(derivation_string, j) = 0
        THEN 61 ELSE derivation_string[i]]

\* the character of hex_str[] and of base64_table[] at an index
HexChar(n) == IF n < 10 THEN 48 + n ELSE 97 + n - 10
Base64Char(n) ==
    IF n < 26 THEN 65 + n
    ELSE IF n < 52 THEN 97 + n - 26
    ELSE IF n < 62 THEN 48 + n - 52
    ELSE IF n = 62 THEN 43 ELSE 47

\* bytes2hexstr: two characters per byte, the string up to its terminator
bytes2hexstr(bin_in) ==
    [i \in 1..(2 * Len(bin_in)) |->
        LET b == bin_in[(i + 1) \div 2]
        IN HexChar(IF i % 2 = 1 THEN (b \div 16) % 16 ELSE b % 16)]

\* bytes2base64: four characters per three bytes (missing bytes taken as 0), then
\* a terminator over each character that standard base64 would pad; the string up
\* to its first terminator
bytes2base64(input_data) ==
    LET input_length == Len(input_data)
        max_output_length == 4 * ((input_length + 2) \div 3) + 1
        byte(i) == IF i < input_length THEN input_data[i + 1] ELSE 0
        t(g) == byte(3 * g) * 65536 + byte(3 * g + 1) * 256 + byte(3 * g + 2)
        six(j) == (t(j \div 4) \div (2 ^ (6 * (3 - (j % 4))))) % 64
        padding == (3 - (input_length % 3)) % 3
    IN [j \in 1..(max_output_length - 1 - padding) |-> Base64Char(six(j - 1))]

\* what a call of the library returns to the tool: the simulation's functions
\* succeed for valid arguments, the hardware backends' can fail for the device
tool_uta_rc == IF backend = "UTA_SIM" THEN {UTA_SUCCESS} ELSE {UTA_SUCCESS, UTA_TA_ERROR}

\* the key uta.derive_key leaves for key_slot and dv: TA_KEY_BYTES bytes of the
\* HMAC with the slot's key
tool_key(key_slot, dv) ==
    HMAC_SHA256(IF backend = "UTA_SIM" THEN KEY_SLOTS[key_slot + 1]
                ELSE IF key_slot = 0 THEN ProvisionedKey0 ELSE ProvisionedKey1, dv)

\* no run of the tool: uta_context is "none", "open" after uta.open succeeded,
\* "closed" after uta.close was called; freed once free(uta_context) was called
ToolIdle == [pc |-> "idle", args |-> [d |-> NoArg, e |-> NoArg, k |-> NoArg, h |-> FALSE],
             dval |-> << >>, encoding |-> "BASE64_ENCODING", key_slot |-> 0,
             dv |-> << >>, len_dv |-> 0, key |-> << >>,
             uta_context |-> "none", freed |-> FALSE, opens |-> 0, closes |-> 0,
             passphrase |-> << >>, exit |-> 0]

\* exit status 1
tool_fails(s) == [s EXCEPT !.pc = "exited", !.exit = 1]

\* main up to the call of get_passphrase_from_ta: getopt and the three options
tool_main ==
    /\ tool.pc \in {"idle", "exited"}
    /\ \E args \in CommandLines :
          LET s == [ToolIdle EXCEPT !.args = args]
          IN tool' =
                IF args.h THEN tool_fails(s)
                ELSE IF args.d # NoArg /\ UTA_LEN_DV_V1 < strnlen(args.d, UTA_LEN_DV_V1 + 1)
                THEN tool_fails(s)
                ELSE IF args.e # NoArg /\ ~strncmp0(args.e, base64_str, 6)
                                       /\ ~strncmp0(args.e, hex_str, 3)
                THEN tool_fails(s)
                ELSE IF args.k # NoArg /\ ~strncmp0(args.k, << 48 >>, 1)
                                       /\ ~strncmp0(args.k, << 49 >>, 1)
                THEN tool_fails(s)
                ELSE [s EXCEPT !.pc = "main",
                               !.dval = IF args.d # NoArg THEN args.d ELSE default_dv,
                               !.encoding = IF args.e # NoArg /\ ~strncmp0(args.e, base64_str, 6)
                                            THEN "HEX_ENCODING" ELSE "BASE64_ENCODING",
                               !.key_slot = IF args.k # NoArg /\ strncmp0(args.k, << 48 >>, 1)
                                            THEN 0 ELSE 1]
    /\ UNCHANGED << libvars, prov, gr, dk >>

\* get_passphrase_from_ta up to uta.open: the padding, uta_init_v1, malloc of the
\* context, uta.open
tool_open ==
    /\ tool.pc = "main"
    /\ \E malloc_ok \in BOOLEAN, code \in tool_uta_rc :
          LET s == [tool EXCEPT !.dv = dv_padded(tool.dval), !.len_dv = UTA_LEN_DV_V1]
          IN tool' =
                IF uta_init_v1(Defined(backend)).rc # UTA_SUCCESS \/ ~malloc_ok
                THEN tool_fails(s)
                ELSE IF code # UTA_SUCCESS
                THEN tool_fails([s EXCEPT !.freed = TRUE])
                ELSE [s EXCEPT !.pc = "open", !.uta_context = "open", !.opens = 1]
    /\ UNCHANGED << libvars, prov, gr, dk >>

\* uta.derive_key(key, TA_KEY_BYTES, dv_padded, UTA_LEN_DV_V1, key_slot); on an
\* error the context is freed and 1 returned
tool_derive_key ==
    /\ tool.pc = "open"
    /\ \E code \in tool_uta_rc :
          tool' = IF code # UTA_SUCCESS
                  THEN tool_fails([tool EXCEPT !.freed = TRUE])
                  ELSE [tool EXCEPT !.pc = "derived",
                                    !.key = tool_key(tool.key_slot, tool.dv)]
    /\ UNCHANGED << libvars, prov, gr, dk >>

\* uta.close and free(uta_context)
tool_close ==
    /\ tool.pc = "derived"
    /\ \E code \in tool_uta_rc :
          LET s == [tool EXCEPT !.closes = tool.closes + 1, !.freed = TRUE,
                                !.uta_context = IF code = UTA_SUCCESS THEN "closed"
                                                ELSE tool.uta_context]
          IN tool' = IF code # UTA_SUCCESS THEN tool_fails(s)
                     ELSE [s EXCEPT !.pc = "closed"]
    /\ UNCHANGED << libvars, prov, gr, dk >>

\* the conversion of the key to the passphrase, printf and exit status 0
tool_print ==
    /\ tool.pc = "closed"
    /\ \E malloc_ok \in BOOLEAN :
          tool' = IF ~malloc_ok THEN tool_fails(tool)
                  ELSE [tool EXCEPT !.pc = "exited", !.exit = 0,
                                    !.passphrase = IF tool.encoding = "BASE64_ENCODING"
                                                   THEN bytes2base64(tool.key)
                                                   ELSE bytes2hexstr(tool.key)]
    /\ UNCHANGED << libvars, prov, gr, dk >>

ToolNext ==
    \/ tool_main
    \/ tool_open
    \/ tool_derive_key
    \/ tool_close
    \/ tool_print

(* ------------------------------ the system ----------------------------- *)
\* the caller has allocated the context (context_v1_size bytes) and not yet opened it
Init ==
    /\ backend \in Backends
    /\ workload \in Workloads
    /\ life = "closed"
    /\ ctx = NoCtx
    /\ mutex = [owner |-> 0, alive |-> FALSE]
    /\ wire = NoCmd
    /\ \E f \in (IF backend = "UTA_SIM" THEN MachineIdFiles ELSE {NoFile}) :
          dev = [rng |-> 0, objs |-> {}, sessions |-> {}, file |-> f]
    /\ pc = [t \in Threads |-> "idle"]
    /\ call = [t \in Threads |-> NoCall]
    /\ loc = [t \in Threads |-> NoLoc]
    /\ out = [t \in Threads |-> FreshBuf]
    /\ rc = [t \in Threads |-> UTA_SUCCESS]
    /\ ncalls = 0
    /\ caller = 0
    /\ got = [t \in Threads |-> << >>]
    /\ answers = [t \in Threads |-> << >>]
    /\ closes = 0
    /\ other = "closed"
    /\ prov = ProvIdle
    /\ tool = ToolIdle
    /\ gr = GrIdle
    /\ dk = DkIdle
    /\ zeroSeen = FALSE

\* the steps of thread t
ThreadNext(t) ==
        \/ Lock(t)
        \/ LockFail(t)
        \/ uta_get_version(t)
        \/ uta_len_key_max(t)
        \/ sim_open(t)
        \/ sim_close(t)
        \/ sim_open_other(t)
        \/ sim_close_other(t)
        \/ sim_derive_key(t)
        \/ sim_get_random(t)
        \/ sim_get_random_loop(t)
        \/ sim_get_device_uuid(t)
        \/ sim_self_test(t)
        \/ ibm_tpm_open(t)
        \/ ibm_tpm_open_done(t)
        \/ ibm_tpm_close(t)
        \/ ibm_tpm_close_flush(t)
        \/ ibm_tpm_close_delete(t)
        \/ ibm_tpm_close_destroy(t)
        \/ ibm_tpm_derive_key(t)
        \/ ibm_tpm_derive_key_hmac(t)
        \/ ibm_tpm_derive_key_done(t)
        \/ ibm_tpm_get_random(t)
        \/ ibm_tpm_get_rand(t)
        \/ ibm_tpm_get_rand_loop(t)
        \/ ibm_tpm_get_device_uuid(t)
        \/ ibm_tpm_create_endosement_key(t)
        \/ ibm_tpm_get_device_uuid_hmac(t)
        \/ ibm_tpm_get_device_uuid_flush(t)
        \/ ibm_tpm_get_device_uuid_done(t)
        \/ ibm_tpm_self_test(t)
        \/ ibm_tpm_start_selftest(t)
        \/ ibm_tpm_get_test_result(t)
        \/ ibm_tpm_self_test_done(t)
        \/ tcg_tpm_open(t)
        \/ tcg_tpm_open_StartAuthSession(t)
        \/ tcg_tpm_open_done(t)
        \/ tcg_tpm_close(t)
        \/ tcg_tpm_close_FlushContext(t)
        \/ tcg_tpm_close_Finalize(t)
        \/ tcg_tpm_close_destroy(t)
        \/ tcg_tpm_derive_key(t)
        \/ tcg_tpm_derive_key_FromTPMPublic(t)
        \/ tcg_tpm_derive_key_SetAttributes(t)
        \/ tcg_tpm_derive_key_done(t)
        \/ tcg_tpm_get_random(t)
        \/ tcg_tpm_get_random_SetAttributes(t)
        \/ tcg_tpm_get_random_loop(t)
        \/ tcg_tpm_get_device_uuid(t)
        \/ tcg_tpm_get_device_uuid_CreatePrimary(t)
        \/ tcg_tpm_get_device_uuid_HMAC(t)
        \/ tcg_tpm_get_device_uuid_FlushContext(t)
        \/ tcg_tpm_get_device_uuid_done(t)
        \/ tcg_tpm_self_test(t)
        \/ tcg_tpm_self_test_SelfTest(t)
        \/ tcg_tpm_self_test_GetTestResult(t)
        \/ tcg_tpm_self_test_done(t)

\* the device is provisioned before the library is used on it
Next == \E t \in Threads : ThreadNext(t)

Spec == Init /\ [][Next]_vars

\* a provisioning run on a device no library context is open on
ProvInit ==
    /\ backend = "TPM_IBM"
    /\ workload = "sequential"
    /\ life = "closed"
    /\ ctx = NoCtx
    /\ mutex = [owner |-> 0, alive |-> FALSE]
    /\ wire = NoCmd
    /\ dev = [rng |-> 0, objs |-> {}, sessions |-> {}, file |-> NoFile]
    /\ pc = [t \in Threads |-> "idle"]
    /\ call = [t \in Threads |-> NoCall]
    /\ loc = [t \in Threads |-> NoLoc]
    /\ out = [t \in Threads |-> FreshBuf]
    /\ rc = [t \in Threads |-> UTA_SUCCESS]
    /\ ncalls = 0
    /\ caller = 0
    /\ got = [t \in Threads |-> << >>]
    /\ answers = [t \in Threads |-> << >>]
    /\ closes = 0
    /\ other = "closed"
    /\ prov \in ProvStarts
    /\ tool = ToolIdle
    /\ gr = GrIdle
    /\ dk = DkIdle
    /\ zeroSeen = FALSE

ProvNext == ProvStep

ProvSpec == ProvInit /\ [][ProvNext]_vars

\* a derive_key call on an open context of a provisioned device
DkInit ==
    /\ backend = "TPM_TCG"
    /\ workload = "sequential"
    /\ life = "open"
    /\ ctx = [NoCtx EXCEPT !.tss = "up", !.session = SessionHandles[1]]
    /\ mutex = [owner |-> 0, alive |-> TRUE]
    /\ wire = NoCmd
    /\ dev = [rng |-> 0, objs |-> {}, sessions |-> {SessionHandles[1]}, file |-> NoFile]
    /\ pc = [t \in Threads |-> "idle"]
    /\ call = [t \in Threads |-> NoCall]
    /\ loc = [t \in Threads |-> NoLoc]
    /\ out = [t \in Threads |-> FreshBuf]
    /\ rc = [t \in Threads |-> UTA_SUCCESS]
    /\ ncalls = 0
    /\ caller = 0
    /\ got = [t \in Threads |-> << >>]
    /\ answers = [t \in Threads |-> << >>]
    /\ closes = 0
    /\ other = "closed"
    /\ prov = ProvIdle
    /\ tool = ToolIdle
    /\ gr = GrIdle
    /\ dk = DkIdle
    /\ zeroSeen = FALSE

DeriveSpec == DkInit /\ [][DkNext]_vars

\* get_random calls of the three backends, followed for their counters alone
WidthSpec == Init /\ [][WidthNext]_vars

\* runs of uta_get_passphrase, one after the other
ToolSpec == Init /\ [][ToolNext]_vars

(* ------------------------------ properties ----------------------------- *)
Hardware == backend \in {"TPM_IBM", "TPM_TCG"}

Returned(t, op) == pc[t] = "returned" /\ call[t].op = op

\* thread t is between pthread_mutex_lock and pthread_mutex_unlock
InCritical(t) == pc[t] \in {"locked", "xchg"}

\* C1: in the hardware backends, under every interleaving of calls (close included)
\* on the shared context, at most one thread is between lock acquisition and
\* release, that thread is the owner of the mutex, and the command on the transport
\* is the command of the one thread that is in an exchange: exchanges never overlap.
C1_MutualExclusion ==
    Hardware =>
        /\ \A t, u \in Threads : (InCritical(t) /\ InCritical(u)) => t = u
        /\ \A t \in Threads : InCritical(t) => mutex.owner = t
        /\ \A t \in Threads : pc[t] = "xchg" => wire.owner = t

\* a thread is in an exchange of get_random while another one, which called close,
\* waits for the lock
C1_Witness ==
    \E t, u \in Threads :
        /\ pc[t] = "xchg" /\ call[t].op = "get_random"
        /\ pc[u] = "lock" /\ call[u].op = "close"

\* the key of the slot in the backend in use
OwnSlotKey(key_slot) ==
    IF backend = "UTA_SIM" THEN KEY_SLOTS[key_slot + 1]
    ELSE IF key_slot = 0 THEN ProvisionedKey0 ELSE ProvisionedKey1

\* the key buffer a derive_key call has to leave: the first len_key bytes of the HMAC
\* of its own slot key and derivation value, nothing else written
ExpectedKey(c) == memcpy(FreshBuf, HMAC_SHA256(OwnSlotKey(c.key_slot), c.dv), c.len_key)

\* C2: under every interleaving, a derive_key call that returned success left the
\* truncated HMAC of its own slot key and its own derivation value, and a get_random
\* call that returned success left bytes that were delivered to its own exchanges.
C2_OwnResults ==
    \A t \in Threads :
        /\ (Returned(t, "derive_key") /\ rc[t] = UTA_SUCCESS) => out[t] = ExpectedKey(call[t])
        /\ (Returned(t, "get_random") /\ rc[t] = UTA_SUCCESS) =>
               /\ call[t].len_random <= Len(got[t])
               /\ out[t] = memcpy(FreshBuf, got[t], call[t].len_random)

\* C3: in the hardware backends a thread that has returned from derive_key,
\* get_random, get_device_uuid or self_test does not hold the lock.
C3_LockReleasedOnReturn ==
    Hardware =>
        \A t \in Threads :
            (pc[t] = "returned"
             /\ call[t].op \in {"derive_key", "get_random", "get_device_uuid", "self_test"})
            => mutex.owner # t

\* C4: on an open hardware context, when every exchange returns and no successful
\* random exchange delivers zero bytes, every call returns: a thread that waits for
\* the lock gets it, because the thread that holds it is still between lock and
\* unlock and will release it; no call waits for a lock that was left held by a call
\* that has returned.
C4_NoCallStuck ==
    (Hardware /\ life = "open" /\ ~zeroSeen) =>
        \A t \in Threads :
            (pc[t] = "lock" /\ mutex.owner # 0) => InCritical(mutex.owner)

\* C5 (as amended: on the simulation backend): a derive_key call with a slot in
\* {0,1}, an 8-byte derivation value and len_key in 0..32 returns success and leaves
\* exactly the first len_key bytes of HMAC-SHA256(key of the slot, dv) in the key
\* buffer; of two such calls with the same slot and dv the shorter output is a prefix
\* of the longer, and calls with equal inputs leave equal outputs.
C5_SimDeriveKey ==
    backend = "UTA_SIM" =>
        /\ \A t \in Threads :
               (Returned(t, "derive_key") /\ call[t].key_slot \in {0, 1}
                /\ call[t].len_dv = 8 /\ call[t].len_key <= 32)
               => (rc[t] = UTA_SUCCESS /\ out[t] = ExpectedKey(call[t]))
        /\ \A t, u \in Threads :
               (Returned(t, "derive_key") /\ Returned(u, "derive_key")
                /\ rc[t] = UTA_SUCCESS /\ rc[u] = UTA_SUCCESS
                /\ call[t].key_slot = call[u].key_slot /\ call[t].dv = call[u].dv
                /\ call[t].len_key <= call[u].len_key)
               => \A i \in 1..call[t].len_key : out[t][i] = out[u][i]

\* C5 as stated, for whichever backend: a derive_key call with valid arguments
\* returns success and leaves the truncated HMAC.
C5_AnyBackendDeriveKey ==
    \A t \in Threads :
        (Returned(t, "derive_key") /\ call[t].key_slot \in {0, 1}
         /\ call[t].len_dv = 8 /\ call[t].len_key <= 32)
        => (rc[t] = UTA_SUCCESS /\ out[t] = ExpectedKey(call[t]))

\* two simulation calls with the same slot and derivation value, one for 16 and one
\* for 32 bytes
C5_Witness ==
    /\ backend = "UTA_SIM"
    /\ \E t, u \in Threads :
          /\ Returned(t, "derive_key") /\ Returned(u, "derive_key")
          /\ call[t].key_slot = 1 /\ call[u].key_slot = 1
          /\ call[t].len_key = 16 /\ call[u].len_key = 32
          /\ out[t][16] # Untouched /\ out[t][17] = Untouched

\* the step is the entry of thread t into derive_key
EntersDeriveKey(t) ==
    /\ ncalls' = ncalls + 1
    /\ caller' = t
    /\ call'[t].op = "derive_key"

\* C6: in every backend, a derive_key call with key_slot in 2..255 returns
\* UTA_INVALID_KEY_SLOT in the step that starts it, whatever len_dv and len_key are;
\* the mutex is not touched and no command goes to the transport.
C6_InvalidKeySlot ==
    [][\A t \in Threads :
          (EntersDeriveKey(t) /\ call'[t].key_slot >= 2)
          => /\ pc'[t] = "returned"
             /\ rc'[t] = UTA_INVALID_KEY_SLOT
             /\ mutex' = mutex
             /\ wire' = wire
             /\ dev' = dev]_vars

\* the IBM-stack backend returned UTA_INVALID_KEY_SLOT for slot 255 although len_dv
\* and len_key are invalid too
C6_Witness ==
    /\ backend = "TPM_IBM"
    /\ \E t \in Threads :
          /\ Returned(t, "derive_key") /\ rc[t] = UTA_INVALID_KEY_SLOT
          /\ call[t].key_slot = 255 /\ call[t].len_dv = 9 /\ call[t].len_key = 33

\* C7 (as amended: for a valid key slot): a derive_key call with key_slot in {0,1}
\* and len_dv different from 8 returns UTA_INVALID_DV_LENGTH, whatever len_key is.
C7_InvalidDvLength ==
    \A t \in Threads :
        (Returned(t, "derive_key") /\ call[t].key_slot \in {0, 1} /\ call[t].len_dv # 8)
        => rc[t] = UTA_INVALID_DV_LENGTH

\* C7 as stated: every derive_key call with len_dv different from 8 returns
\* UTA_INVALID_DV_LENGTH.
C7_AnySlotInvalidDvLength ==
    \A t \in Threads :
        (Returned(t, "derive_key") /\ call[t].len_dv # 8) => rc[t] = UTA_INVALID_DV_LENGTH

\* UTA_INVALID_DV_LENGTH for a 9-byte derivation value although len_key is invalid too
C7_Witness ==
    \E t \in Threads :
        /\ Returned(t, "derive_key") /\ rc[t] = UTA_INVALID_DV_LENGTH
        /\ call[t].key_slot = 1 /\ call[t].len_dv = 9 /\ call[t].len_key = 33

\* C8 (as amended: for a valid key slot and an 8-byte derivation value): a derive_key
\* call with key_slot in {0,1}, len_dv = 8 and len_key greater than 32 returns
\* UTA_INVALID_KEY_LENGTH.
C8_InvalidKeyLength ==
    \A t \in Threads :
        (Returned(t, "derive_key") /\ call[t].key_slot \in {0, 1} /\ call[t].len_dv = 8
         /\ call[t].len_key > 32)
        => rc[t] = UTA_INVALID_KEY_LENGTH

\* C8 as stated: every derive_key call with len_key greater than 32 returns
\* UTA_INVALID_KEY_LENGTH.
C8_AnyInvalidKeyLength ==
    \A t \in Threads :
        (Returned(t, "derive_key") /\ call[t].len_key > 32) => rc[t] = UTA_INVALID_KEY_LENGTH

\* UTA_INVALID_KEY_LENGTH from the TCG-stack backend for len_key = 33
C8_Witness ==
    /\ backend = "TPM_TCG"
    /\ \E t \in Threads :
          /\ Returned(t, "derive_key") /\ rc[t] = UTA_INVALID_KEY_LENGTH
          /\ call[t].key_slot = 0 /\ call[t].len_dv = 8 /\ call[t].len_key = 33

ValidationErrors == {UTA_INVALID_KEY_LENGTH, UTA_INVALID_DV_LENGTH, UTA_INVALID_KEY_SLOT}

\* C9: a derive_key call that returns one of the three validation errors returns it
\* in the step that starts it, and that step leaves the mutex, the transport, the
\* trust anchor and the context as they were and the caller's key buffer unwritten.
C9_ValidationHasNoEffect ==
    [][\A t \in Threads :
          (EntersDeriveKey(t) /\ pc'[t] = "returned" /\ rc'[t] \in ValidationErrors)
          => /\ mutex' = mutex
             /\ wire' = wire
             /\ dev' = dev
             /\ ctx' = ctx
             /\ life' = life
             /\ out'[t] = FreshBuf]_vars

\* a derive_key call was refused for its key slot while another thread is in an
\* exchange with the lock held
C9_Witness ==
    \E t, u \in Threads :
        /\ Returned(t, "derive_key") /\ rc[t] = UTA_INVALID_KEY_SLOT
        /\ out[t] = FreshBuf
        /\ pc[u] = "xchg" /\ mutex.owner = u

InRandomExchange(t) == Hardware /\ pc[t] = "xchg" /\ call[t].op = "get_random"

ZeroByteExchange(t) ==
    /\ InRandomExchange(t)
    /\ wire.owner = t
    /\ ~zeroSeen /\ zeroSeen'

\* C12: get_random does not loop forever when exchanges succeed with zero bytes: a
\* zero-byte exchange ends the call, or it changes something the call keeps (a count
\* of exchanges or of retries) so that the number of such exchanges is bounded.  A
\* step that leaves the call where it was, with the same command on the transport,
\* can be repeated without end.
C12_ZeroExchangeIsCounted ==
    [][\A t \in Threads :
          ZeroByteExchange(t) =>
              \/ pc'[t] = "returned"
              \/ loc'[t] # loc[t]
              \/ wire' # wire]_vars

\* the 16 bytes that identify the device: the converted machine id for the
\* simulation; for a TPM the first 16 bytes of the HMAC of "DEVICEID" under the
\* endorsement primary key, with the RFC 4122 bits set
DeviceUuid ==
    IF backend = "UTA_SIM"
    THEN memcpy(FreshBuf, sim_tmp_uuid(dev.file.bytes), UUID_LEN)
    ELSE FormatUuid(memcpy(FreshBuf, HMAC_SHA256(EndorsementKey, DEVICEID), UUID_LEN))

\* C13: every successful get_device_uuid call leaves the same 16 bytes, the ones
\* that identify the device, in whichever open/close cycle of the context and by
\* whichever thread it is made; hence any two successful calls agree.
C13_SameUuid ==
    /\ \A t \in Threads :
           (Returned(t, "get_device_uuid") /\ rc[t] = UTA_SUCCESS) => out[t] = DeviceUuid
    /\ \A t, u \in Threads :
           (Returned(t, "get_device_uuid") /\ rc[t] = UTA_SUCCESS
            /\ Returned(u, "get_device_uuid") /\ rc[u] = UTA_SUCCESS) => out[t] = out[u]

\* the RFC 4122 bits of a 16-byte value: version 4 in the high nibble of byte 6,
\* variant binary 10 in the top two bits of byte 8 (C arrays are 0-based)
HasVersion4Bits(u) == (u[7] \div 16 = 4) /\ (u[9] \div 64 = 2)

\* C14: in every backend the 16 bytes a successful get_device_uuid leaves have the
\* high nibble of byte 6 equal to 0x4 and the top two bits of byte 8 equal to 10.
C14_UuidBits ==
    \A t \in Threads :
        (Returned(t, "get_device_uuid") /\ rc[t] = UTA_SUCCESS) => HasVersion4Bits(out[t])

\* C14 for the hardware backends alone
C14_HardwareUuidBits ==
    Hardware =>
        \A t \in Threads :
            (Returned(t, "get_device_uuid") /\ rc[t] = UTA_SUCCESS) => HasVersion4Bits(out[t])

\* what derive_key(slot 1, dv = "DEVICEID", len_key = 16) leaves, with the RFC 4122
\* bits overwritten
Slot1Uuid == FormatUuid(ExpectedKey(DeriveKeyCall(1, DERIV_VAL_LEN, UUID_LEN, DEVICEID)))

\* the 16 bytes of the hmac buffer when the device delivered n bytes of the digest
\* under the endorsement primary key and the rest of the buffer holds g
EndorsementDigest(n, g) ==
    [i \in 1..UUID_LEN |-> IF i <= n THEN HMAC_SHA256(EndorsementKey, DEVICEID)[i] ELSE g]

SelfTestPassed(t) ==
    /\ Len(answers[t]) = 2
    /\ answers[t][1] = [cc |-> "SelfTest", rc |-> 0, test |-> 0]
    /\ answers[t][2] = [cc |-> "GetTestResult", rc |-> 0, test |-> 0]

\* C16: on a hardware backend self_test returns UTA_SUCCESS exactly when the
\* self-test command succeeded, the test-result query succeeded and the reported
\* diagnostic result is zero, and UTA_TA_ERROR in every other case; the query
\* is issued only after the self-test command succeeded; on the simulation
\* backend self_test always returns UTA_SUCCESS.
C16_SelfTestResult ==
    \A t \in Threads :
        /\ (Returned(t, "self_test") /\ backend = "UTA_SIM") => rc[t] = UTA_SUCCESS
        /\ (Returned(t, "self_test") /\ Hardware) =>
               /\ rc[t] \in {UTA_SUCCESS, UTA_TA_ERROR}
               /\ rc[t] = UTA_SUCCESS <=> SelfTestPassed(t)
        /\ (Hardware /\ call[t].op = "self_test") =>
               /\ \A i \in 1..Len(answers[t]) :
                      answers[t][i].cc = "GetTestResult" =>
                          /\ i = 2
                          /\ answers[t][1].cc = "SelfTest"
                          /\ answers[t][1].rc = 0
               /\ (pc[t] = "xchg" /\ loc[t].at = "GetTestResult") =>
                      /\ Len(answers[t]) = 1
                      /\ answers[t][1].cc = "SelfTest"
                      /\ answers[t][1].rc = 0

\* a hardware self_test returned UTA_TA_ERROR because the diagnostic result,
\* read back by a successful query after a successful self-test, was not zero
C16_Witness ==
    \E t \in Threads :
        /\ Hardware
        /\ Returned(t, "self_test")
        /\ rc[t] = UTA_TA_ERROR
        /\ Len(answers[t]) = 2
        /\ answers[t][1].rc = 0
        /\ answers[t][2].cc = "GetTestResult"
        /\ answers[t][2].rc = 0
        /\ answers[t][2].test # 0

(* ----------------------------- return codes ---------------------------- *)
ReturnCodes ==
    {UTA_SUCCESS, UTA_INVALID_KEY_LENGTH, UTA_INVALID_DV_LENGTH, UTA_INVALID_KEY_SLOT,
     UTA_TA_ERROR}

\* thread t is inside a call that has passed the entry of its function
PastEntry(t) == ~Ready(t)

EntersOpen(t) == ncalls' = ncalls + 1 /\ caller' = t /\ call'[t].op = "open"

\* C18: on the hardware backends open returns UTA_SUCCESS only in the step
\* that answers its StartAuthSession command, sent over the connected and
\* configured transport for an AES-CFB / SHA-256 HMAC session keyed to
\* TPM_SALT_HANDLE; when it returns UTA_SUCCESS the lock is initialised and not
\* held, and the session handle in the context is the one the device has just
\* returned for that session.
C18_OpenSuccess ==
    [][\A t \in Threads :
          /\ (Hardware /\ EntersOpen(t) /\ pc'[t] = "returned") => rc'[t] # UTA_SUCCESS
          /\ (Hardware /\ call[t].op = "open" /\ pc[t] = "xchg" /\ pc'[t] = "returned"
                /\ rc'[t] = UTA_SUCCESS)
             => /\ ctx.tss = "up" /\ ctx'.tss = "up"
                /\ wire.cc = "StartAuthSession"
                /\ wire.owner = t
                /\ wire.handle = TPM_SALT_HANDLE
                /\ wire.attrs = HmacSessionDef
                /\ mutex.owner = t
                /\ mutex'.alive /\ mutex'.owner = 0
                /\ ctx'.session = NextFree(SessionHandles, dev.sessions)
                /\ ctx'.session \notin dev.sessions
                /\ ctx'.session \in dev'.sessions
                /\ life' = "open"]_vars

\* a hardware open has returned UTA_SUCCESS on a context that was opened
\* before: the session in the context is the second one the device gave
C18_Witness ==
    \E t \in Threads :
        /\ Hardware
        /\ Returned(t, "open")
        /\ rc[t] = UTA_SUCCESS
        /\ ctx.session = SessionHandles[2]
        /\ ctx.session \in dev.sessions
        /\ mutex.alive /\ mutex.owner = 0

(* --------------------------------- close ------------------------------- *)
\* thread t is in a close call on a hardware backend
InClose(t) == Hardware /\ call[t].op = "close"

\* close of thread t returns UTA_SUCCESS in this step
CloseSucceeds(t) ==
    InClose(t) /\ pc[t] # "returned" /\ pc'[t] = "returned" /\ rc'[t] = UTA_SUCCESS

\* C19 (steps): close of an open hardware context sends the flush of the
\* session of the context while it holds the lock, then, still holding the lock
\* and whatever the flush answered, releases the transport and unlocks, then
\* destroys the lock and returns UTA_SUCCESS.
C19_CloseOrder ==
    [][\A t \in Threads :
          /\ (InClose(t) /\ pc[t] = "locked" /\ pc'[t] # "locked")
             => /\ pc'[t] = "xchg"
                /\ wire'.cc = "FlushContext" /\ wire'.handle = ctx.session
                /\ mutex'.owner = t
                /\ ctx'.tss = ctx.tss
          /\ (InClose(t) /\ pc[t] = "xchg" /\ pc'[t] # "xchg")
             => \/ /\ pc'[t] = "destroy"
                   /\ mutex.owner = t /\ mutex'.owner = 0
                   /\ ctx'.tss = "none"
                \/ /\ backend = "TPM_IBM"
                   /\ pc'[t] = "returned" /\ rc'[t] = UTA_TA_ERROR
                   /\ ctx'.tss = ctx.tss
          /\ (InClose(t) /\ pc[t] = "destroy" /\ pc'[t] # "destroy")
             => /\ pc'[t] = "returned" /\ rc'[t] = UTA_SUCCESS
                /\ mutex' \in pthread_mutex_destroy(mutex)
          /\ CloseSucceeds(t) => pc[t] = "destroy" /\ ctx'.tss = "none"]_vars

\* C19: when close of a hardware context returns UTA_SUCCESS the transport
\* has been released and the lock has been unlocked and destroyed: the lock is
\* free when pthread_mutex_destroy is called on it and when close returns.
C19_CloseSuccess ==
    [][\A t \in Threads :
          CloseSucceeds(t) => /\ ctx'.tss = "none"
                              /\ mutex.owner = 0
                              /\ mutex'.owner = 0]_vars

(* ------------------------ open / close cycles -------------------------- *)
\* one caller uses the context, cycle after cycle
Consecutive == workload = "sequential"

\* the close call of thread t read back a successful flush of the session
FlushedSession(t) == answers[t] = << [cc |-> "FlushContext", rc |-> 0, test |-> 0] >>

OtherContextStep == other' # other

\* C21: the library keeps no state outside the context: a call on one context
\* (open included) never changes what a later call on another context returns;
\* here, while this context is open, the byte the next pass of its get_random
\* will deliver.
C21_OtherContextHasNoEffect ==
    [][(OtherContextStep /\ life = "open") => sim_rand(dev'.rng) = sim_rand(dev.rng)]_vars

(* ------------------------------ the session ---------------------------- *)
\* the open call of thread t returns UTA_SUCCESS in this step
OpenSucceeds(t) ==
    call[t].op = "open" /\ pc[t] = "xchg" /\ pc'[t] = "returned" /\ rc'[t] = UTA_SUCCESS

\* the command on the transport is one that runs under a session
SessionProtected == wire.cc \in {"HMAC", "GetRandom"}

\* C22: on the hardware backends only a successful open changes the session
\* handle stored in the context; every session-protected command (HMAC,
\* GetRandom) is issued with that handle and with continueSession set; while the
\* context is open the session of the context is alive on the device, and it
\* is the session whose flush close sends.
C22_SessionKept ==
    [][Hardware =>
          /\ ctx'.session # ctx.session => \E t \in Threads : OpenSucceeds(t)
          /\ SessionProtected' => /\ wire'.session = ctx'.session
                                  /\ "continueSession" \in wire'.attrs
          /\ life' = "open" => ctx'.session \in dev'.sessions
          /\ \A t \in Threads :
                (InClose(t) /\ pc[t] = "locked" /\ pc'[t] = "xchg")
                => /\ wire'.cc = "FlushContext"
                   /\ wire'.handle = ctx.session
                   /\ ctx.session \in dev.sessions]_vars

\* on an open hardware context three calls after the open have been made, the
\* latest a get_random that returned UTA_SUCCESS, and the session is alive
C22_Witness ==
    \E t \in Threads :
        /\ Hardware
        /\ life = "open"
        /\ ncalls >= 4
        /\ Returned(t, "get_random") /\ rc[t] = UTA_SUCCESS /\ call[t].len_random > 0
        /\ ctx.session \in dev.sessions

(* --------------------------- the function table ------------------------ *)
BackendEntries ==
    {"context_v1_size", "open", "close", "derive_key", "get_random", "self_test",
     "get_device_uuid"}

SharedEntries == {"get_version", "len_key_max"}

\* the backend whose enum value is tag
BackendOfTag(tag) == CHOOSE hw \in Backends : uta_type_enum[hw] = tag

\* C23: uta_init_v1 returns UTA_SUCCESS and fills the nine entries of the table;
\* the seven backend entries are functions of the backend the build selected,
\* the two others the shared ones; and the type tag get_version writes is the
\* enum value of that backend (0 simulation, 1 IBM stack, 2 TCG stack), with
\* the version numbers after it.
C23_OneBackend ==
    LET init == uta_init_v1(Defined(backend))
    IN /\ init.rc = UTA_SUCCESS
       /\ DOMAIN init.uta = BackendEntries \cup SharedEntries
       /\ \A e \in BackendEntries : init.uta[e].impl = backend
       /\ \A e \in SharedEntries : init.uta[e].impl = "shared"
       /\ \A t \in Threads :
             Returned(t, "get_version") =>
                 /\ rc[t] = UTA_SUCCESS
                 /\ out[t][1] \in {0, 1, 2}
                 /\ BackendOfTag(out[t][1]) = backend
                 /\ out[t][1] = (IF backend = "UTA_SIM" THEN 0
                                 ELSE IF backend = "TPM_IBM" THEN 1 ELSE 2)
                 /\ << out[t][2], out[t][3], out[t][4] >> = VERSION

\* get_version has returned in a build of the TCG-stack backend, with tag 2
C23_Witness ==
    \E t \in Threads :
        /\ backend = "TPM_TCG"
        /\ Returned(t, "get_version")
        /\ out[t][1] = 2
        /\ uta_init_v1(Defined(backend)).uta.open.impl = "TPM_TCG"

\* thread t makes a call of op in this step
Calls(t, op) == ncalls' = ncalls + 1 /\ caller' = t /\ call'[t].op = op

\* C24: get_version and len_key_max do not depend on the state of the context:
\* the step of such a call leaves the lock, the transport, the context, the
\* trust anchor and every other thread as they were, get_version returns
\* UTA_SUCCESS and len_key_max 32, whatever the context is (closed, open,
\* closing) and whatever the other threads are doing.
C24_SharedEntries ==
    [][\A t \in Threads :
          /\ (Calls(t, "get_version") \/ Calls(t, "len_key_max"))
             => /\ pc'[t] = "returned"
                /\ mutex' = mutex /\ wire' = wire /\ ctx' = ctx /\ dev' = dev
                /\ life' = life
                /\ \A u \in Threads \ {t} :
                      pc'[u] = pc[u] /\ out'[u] = out[u] /\ rc'[u] = rc[u]
          /\ Calls(t, "get_version") => rc'[t] = UTA_SUCCESS
          /\ Calls(t, "len_key_max") => out'[t][1] = 32]_vars

\* len_key_max has returned 32 to one thread while another thread is in an
\* exchange with the trust anchor under the lock
C24_Witness ==
    \E t, u \in Threads :
        /\ Returned(t, "len_key_max") /\ out[t][1] = 32
        /\ pc[u] = "xchg" /\ mutex.owner = u
        /\ life = "open"

\* the key a finished run with `args` key files has to leave in a slot
ProvisionedKey(args, slot) ==
    IF slot = ECC THEN "salt"
    ELSE IF slot = HMAC_KEY0 THEN (IF args > 0 THEN "hmac_file1" ELSE "hmac_random")
    ELSE (IF args = 2 THEN "hmac_file2" ELSE "hmac_random")

ReturnsWithKeyCreated(t) ==
    /\ Hardware
    /\ call[t].op = "get_device_uuid"
    /\ pc[t] = "xchg" /\ pc'[t] = "returned"
    /\ \/ loc[t].handle # ""
       \/ loc[t].at = "CreatePrimary" /\ dev'.objs # dev.objs

\* C26: in get_device_uuid of both hardware backends, once the transient
\* endorsement key has been created, the call returns only after it has sent a
\* flush of that key, whether it succeeds or fails.
C26_FlushAttempted ==
    [][\A t \in Threads :
          ReturnsWithKeyCreated(t) =>
              /\ loc[t].at = "FlushContext"
              /\ wire.cc = "FlushContext" /\ wire.handle = loc[t].handle]_vars

\* the step of thread t ends a get_device_uuid call of a hardware backend whose
\* key creation and HMAC succeeded and whose flush of the key failed: the key is
\* still loaded
ReturnsAfterFailedFlush(t) ==
    /\ Hardware
    /\ call[t].op = "get_device_uuid"
    /\ loc[t].at = "FlushContext" /\ loc[t].rc = 0
    /\ pc[t] = "xchg" /\ pc'[t] = "returned"
    /\ loc[t].handle \in dev'.objs

\* C27: a failure of the flush of the transient endorsement key is not
\* propagated: when the key creation and the HMAC over the label succeeded,
\* get_device_uuid returns UTA_SUCCESS and writes the UUID even if the flush fails.
C27_FlushFailureIgnored ==
    [][\A t \in Threads :
          ReturnsAfterFailedFlush(t) =>
              /\ rc'[t] = UTA_SUCCESS
              /\ out'[t] = FormatUuid(memcpy(out[t], loc[t].buffer, UUID_LEN))]_vars

\* C28: in both hardware backends a derive_key or get_device_uuid call whose
\* HMAC response is shorter than needed (fewer than len_key bytes, fewer than 16)
\* returns UTA_TA_ERROR and writes nothing; no byte that was not part of the
\* device's response reaches the caller: a successful call leaves exactly the
\* first bytes of the digest, a failed one leaves the buffer as it was handed in.
C28_ShortDigestRejected ==
    Hardware =>
        \A t \in Threads :
            /\ Returned(t, "derive_key") =>
                   out[t] = IF rc[t] = UTA_SUCCESS THEN ExpectedKey(call[t]) ELSE FreshBuf
            /\ Returned(t, "get_device_uuid") =>
                   out[t] = IF rc[t] = UTA_SUCCESS THEN DeviceUuid ELSE FreshBuf

\* C29: under every interleaving of calls on a shared open context, each HMAC
\* command (it comes from derive_key or get_device_uuid) is on the transport with
\* the context's session and continueSession, command and response encryption,
\* and each get-random command with continueSession and response encryption only:
\* the attributes another operation has set on the session do not apply to it.
C29_SessionAttributes ==
    Hardware =>
        /\ wire.cc = "HMAC" =>
               /\ wire.session = ctx.session
               /\ {"decrypt", "encrypt"} \subseteq wire.attrs
               /\ wire.attrs = Attrs61
               /\ call[wire.owner].op \in {"derive_key", "get_device_uuid"}
        /\ wire.cc = "GetRandom" =>
               /\ wire.session = ctx.session
               /\ "encrypt" \in wire.attrs
               /\ wire.attrs = Attrs41
               /\ call[wire.owner].op = "get_random"

\* a get_random call of the TCG backend repeats its command, having received part
\* of its bytes, while a derive_key call of another thread waits for the lock
C29_Witness ==
    /\ backend = "TPM_TCG"
    /\ wire.cc = "GetRandom"
    /\ \E t, u \in Threads :
          /\ t # u
          /\ wire.owner = t /\ pc[t] = "xchg" /\ loc[t].bytesCopied > 0
          /\ pc[u] = "lock" /\ call[u].op = "derive_key"

\* C30: when open of a hardware backend fails (at any step after the lock was
\* taken: transport creation or configuration, key lookup, session start), it
\* has returned UTA_TA_ERROR, no transport resource it acquired is left, and the
\* lock is not held by the caller.
C30_OpenFailureCleansUp ==
    Hardware =>
        \A t \in Threads :
            (Returned(t, "open") /\ rc[t] # UTA_SUCCESS) =>
                /\ rc[t] = UTA_TA_ERROR
                /\ ctx.tss = "none"
                /\ mutex.owner # t

\* C31: close leaves the context lock released on every return path: a thread
\* that has returned from close of a hardware backend, with success or with
\* UTA_TA_ERROR after the release of the transport failed, does not hold the lock.
C31_CloseReleasesLock ==
    Hardware =>
        \A t \in Threads : Returned(t, "close") => mutex.owner # t

\* the latest command of the running call of thread t failed
LatestFailed(t) ==
    /\ answers[t] # << >>
    /\ answers[t][Len(answers[t])].rc # 0

\* C32: in every hardware-backend operation no command is on the transport for
\* a call whose latest command failed, except the flush of the transient key the
\* call created (the failed command itself was not that flush); a get_random
\* call whose exchange failed has returned, with UTA_TA_ERROR.
C32_NoRetry ==
    Hardware =>
        \A t \in Threads :
            /\ (pc[t] = "xchg" /\ LatestFailed(t)) =>
                   /\ wire.cc = "FlushContext"
                   /\ wire.handle = loc[t].handle /\ wire.handle \in dev.objs
                   /\ answers[t][Len(answers[t])].cc # "FlushContext"
            /\ (call[t].op = "get_random" /\ LatestFailed(t)) =>
                   pc[t] = "returned" /\ rc[t] = UTA_TA_ERROR

\* a get_random call has returned after its second exchange failed: the bytes of
\* the first are in the buffer
C32_Witness ==
    \E t \in Threads :
        /\ Hardware
        /\ Returned(t, "get_random") /\ LatestFailed(t)
        /\ got[t] # << >>

\* the persistent handle configured for a key slot
SlotHandle(key_slot) == IF key_slot = 0 THEN TPM_KEY0_HANDLE ELSE TPM_KEY1_HANDLE

\* C33: in every hardware implementation (uta.c, tpm_tcg.c and the lock-free
\* TCG-stack source) each command of a derive_key call that names a key, the
\* look-up of the key as well as the HMAC, names the persistent handle
\* configured for the requested slot: the slot-0 handle for key_slot 0, the
\* slot-1 handle for key_slot 1.
C33_SlotHandle ==
    (dk.pc = "xchg" /\ dk.cmd.cc \in {"ReadPublic", "HMAC"}) =>
        /\ dk.call.key_slot \in {0, 1}
        /\ dk.cmd.handle = SlotHandle(dk.call.key_slot)

\* derive_key returned to thread t after a call with at least two invalid arguments
SeveralInvalid(t) ==
    /\ Returned(t, "derive_key")
    /\ Cardinality({ a \in {"key_slot", "len_dv", "len_key"} :
            \/ a = "key_slot" /\ call[t].key_slot > USED_KEY_SLOTS - 1
            \/ a = "len_dv" /\ call[t].len_dv # DERIV_VAL_LEN
            \/ a = "len_key" /\ call[t].len_key > KEY_LEN }) >= 2

\* C34: when several arguments of derive_key are invalid at once, every backend
\* returns one error with the same precedence: the invalid key slot if the slot is
\* invalid, otherwise the invalid dv length (the key length being invalid too).
C34_ErrorPrecedence ==
    \A t \in Threads :
        SeveralInvalid(t) =>
            rc[t] = IF call[t].key_slot > USED_KEY_SLOTS - 1
                    THEN UTA_INVALID_KEY_SLOT
                    ELSE UTA_INVALID_DV_LENGTH

\* the IBM-stack backend returned the invalid dv length for a call whose dv length
\* and key length were both invalid
C34_Witness ==
    \E t \in Threads :
        /\ backend = "TPM_IBM"
        /\ SeveralInvalid(t)
        /\ call[t].key_slot = 1 /\ call[t].len_dv = 9 /\ call[t].len_key = 33
        /\ rc[t] = UTA_INVALID_DV_LENGTH

\* C35: in all three backends, a derive_key or get_device_uuid call that returned
\* a code other than success has left the caller's output buffer (key, uuid) byte
\* for byte as it was handed in.
C35_BufferKeptOnError ==
    \A t \in Threads :
        ((Returned(t, "derive_key") \/ Returned(t, "get_device_uuid")) /\ rc[t] # UTA_SUCCESS)
        => out[t] = FreshBuf

\* get_device_uuid of the TCG-stack backend returned UTA_TA_ERROR after its HMAC
\* command failed on the device, the uuid buffer as it was
C35_Witness ==
    /\ backend = "TPM_TCG"
    /\ \E t \in Threads :
          /\ Returned(t, "get_device_uuid") /\ rc[t] = UTA_TA_ERROR
          /\ answers[t] # << >>
          /\ answers[t][1].cc = "HMAC" /\ answers[t][1].rc # 0
          /\ out[t] = FreshBuf

\* C36: in the hardware backends, at every step of a get_random call the number of
\* bytes copied is at most len_random and no byte of the caller's buffer at index
\* len_random or above is written, also when an exchange delivered more bytes than
\* it was asked for.
C36_CopyWithinBuffer ==
    Hardware =>
        \A t \in Threads :
            (call[t].op = "get_random" /\ pc[t] \in {"lock", "locked", "xchg", "returned"})
            => /\ loc[t].bytesCopied <= call[t].len_random
               /\ \A i \in 1..KEY_LEN : i > call[t].len_random => out[t][i] = Untouched

\* a get_random call for one byte whose exchange delivered two bytes has returned:
\* the first byte is in the buffer, the second was dropped
C36_Witness ==
    /\ Hardware
    /\ \E t \in Threads :
          /\ Returned(t, "get_random") /\ rc[t] = UTA_SUCCESS
          /\ call[t].len_random = 1 /\ Len(got[t]) = 2
          /\ out[t][1] = got[t][1] /\ out[t][2] = Untouched

\* C37: for every len_random of the range of size_t, no backend's get_random
\* returns success after writing fewer than len_random bytes, and no hardware
\* backend asks the device for zero bytes while bytes are still missing.
C37_NoTruncation ==
    /\ (gr.pc = "returned" /\ gr.rc = UTA_SUCCESS) => gr.written = gr.len_random
    /\ (gr.pc = "xchg" /\ gr.written < gr.len_random) => gr.request > 0

(* ---------------------------- uta_get_passphrase ----------------------- *)
\* the derivation string of a command line, extended with '=' to 8 characters
PaddedTo8(args) ==
    LET s == IF args.d = NoArg THEN default_dv ELSE args.d
    IN [i \in 1..8 |-> IF i <= Len(s) THEN s[i] ELSE 61]

\* the command line with every option written out: -d with the string extended
\* to 8 characters, -e base64 unless hex was given, -k 1 unless 0 was given
WrittenOut(args) ==
    [d |-> PaddedTo8(args),
     e |-> IF args.e = hex_str THEN hex_str ELSE base64_str,
     k |-> IF args.k = << 48 >> THEN << 48 >> ELSE << 49 >>,
     h |-> FALSE]

\* the passphrase of a command line whose options are all written out
PassphraseOf(args) ==
    LET key == tool_key(IF args.k = << 48 >> THEN 0 ELSE 1, args.d)
    IN IF args.e = hex_str THEN bytes2hexstr(key) ELSE bytes2base64(key)

\* the run of the tool has opened the trust anchor
ToolOpened == tool.opens = 1

C39_ClosedOnce ==
    (tool.pc = "exited" /\ ToolOpened) => tool.closes = 1

====
